---------------------------- MODULE Spec2Model ----------------------------
(***************************************************************************)
(* A model of the observables library Obs (src/unnamed/part_001, lines     *)
(* 536-961): mutable and computed observables, subscriptions, the binary   *)
(* heap update queue, update regions (startUpdate/endUpdate) and disposal. *)
(*                                                                         *)
(* Every public call of the library is one action.  The library is         *)
(* single-threaded and a call returns only after the update queue has been *)
(* processed, so an action holds the whole call, its flush included.  The  *)
(* library's functions are operators from machine states (records with one *)
(* field per program variable or object field) to machine states; they     *)
(* keep the names they have in the source.                                 *)
(***************************************************************************)
EXTENDS Integers, Sequences, FiniteSets, TLC

\* ------------------------------------------------------------------ bounds
\* The number of observables (mutable, computed, subscriptions) ever created.
MaxCells == 4
\* The deepest nesting of update regions the environment opens.
MaxDepth == 2
\* The number of Obs.dispose calls the environment makes.
MaxDisposals == 1
\* The number of observables created when the equality tests, peeking and
\* writes to computed observables are exercised (SpecApi).
ApiCells == 3

\* The number of observables of an application that uses Od (SpecPatch,
\* SpecCmpt): each component has a computed observable and a subscription.
OdCells == 13
\* The number of components ever created.
MaxCmpts == 6
\* The number of document nodes ever created.
MaxNodes == 16
\* The number of Od.bind calls the application makes.
MaxBinds == 2
MaxChildren == 2
PatchCmpts == 1

\* ---------------------------------------------------------------- constants
\* Obs.subscribe: obs.level = 999999999
SubscriptionLevel == 999999999

\* The numbers stored in mutable observables.
Vals == {0, 1}
\* Obs.dispose stores null; a computed observable that was never evaluated
\* successfully holds undefined.
Null == -1
Undefined == -2

\* Two distinct objects with the same valueOf() (two Dates of the same time).
Box1 == 10
Box2 == 11
Boxes == {Box1, Box2}
\* x.valueOf(): a number is its own, the two boxes share one.
ValueOf(x) == IF x \in Boxes THEN Box1 ELSE x

Ids == 1..MaxCells

\* x | 0 of JavaScript on the values of the model: null and undefined give 0.
ToInt(x) == IF x < 0 THEN 0 ELSE x
\* JavaScript truthiness on the values of the model.
Truthy(x) == x > 0

\* ----------------------------------------------------------------- bodies
\* The functions handed to Obs.fn and the actions handed to Obs.subscribe.
\*   id(a)        function () { return a(); }
\*   sum(a, b)    function () { return ((a() | 0) + (b() | 0)) % 2; }
\*   cond(a, b)   function () { return a() ? b() : 1; }
\*   guard(a, b)  function () { if (a() === 1) throw "guard"; return b(); }
\*   peek(a, b)   function () { a(); return Obs.peek(b); }
\*   set(a, b)    function () { a(1); return b(); }
\*   noop         function () { }
\*   writeZero(a) function () { a(0); }
\*   read(a)      function () { a(); }
NoBody == [k |-> "none", a |-> 0, b |-> 0]

\* The functions over the observables R (id(a) is written with b = a).
FnBodies(R) ==
    {f \in [k : {"id", "sum", "cond", "guard"}, a : R, b : R] :
        IF f.k = "id" THEN f.a = f.b ELSE f.a < f.b}

\* The actions over the mutable observables M.
SubBodies(M) ==
    {[k |-> "noop", a |-> 0, b |-> 0]}
    \cup {[k |-> "writeZero", a |-> x, b |-> 0] : x \in M}

\* The functions exercised with the equality tests and peeking.
ApiBodies(R) ==
    {f \in [k : {"id", "cond", "peek"}, a : R, b : R] :
        CASE f.k = "id" -> f.a = f.b
          [] f.k = "cond" -> f.a < f.b
          [] f.k = "peek" -> f.a # f.b}

\* The functions that write a mutable observable of M and read one of R, and
\* the actions that read one of R.
SetBodies(M, R) == {[k |-> "set", a |-> x, b |-> y] : x \in M, y \in R}
ReadBodies(R) == {[k |-> "read", a |-> x, b |-> 0] : x \in R}

\* The equality tests of the library.
EqNames == {"defaultEq", "valueOfEq", "alwaysUpdate"}

\* ------------------------------------------------------- Od: the state
OdIds == 1..OdCells
\* The names given to components.
Names == {"foo"}

\* A document node: kind "text" (nodeName "#text") or "elt"; tag is tagName,
\* text is nodeValue, key and keyed are the properties patchProps copies from
\* the props ("" is undefined/null), cid is __Od__componentID, parent is
\* parentNode (0 is null), children is childNodes.  onodevent is the property
\* onodevent of the node and odProps the onodevent of its __Od__props ("" is
\* none, see Hooks); opaque tells a node made outside Od, which Od.fromDom
\* takes; odevents counts the calls the handlers got for the node.
NoEvents == [created |-> 0, updated |-> 0, removed |-> 0]
NoNode ==
    [kind |-> "none", tag |-> "", text |-> "", key |-> "", keyed |-> FALSE,
     cid |-> 0, parent |-> 0, children |-> <<>>, onodevent |-> "", odProps |-> "",
     opaque |-> FALSE, odevents |-> NoEvents]

\* __Od__componentID of a node Od.fromDom or Od.fromHtml gave (Infinity).
Infinity == 99

\* A vDOM: a string (t = "text"), the function Od.element returns (t = "elt",
\* with the tag, the props key and keyed, and the children it closes over) or
\* the function Od.component returns (t = "cmpt", c the component's ID).  The
\* key "" is no key.  onodevent is the handler of the props ("" is none) and,
\* of the function Od.fromDom returns (t = "dom"), c is the node it closes over.
NoVdom ==
    [t |-> "none", tag |-> "", text |-> "", key |-> "", keyed |-> FALSE,
     c |-> 0, children |-> <<>>, onodevent |-> ""]
VText(txt) == [NoVdom EXCEPT !.t = "text", !.text = txt]
VElt(tag, key, keyed, children) ==
    [NoVdom EXCEPT !.t = "elt", !.tag = tag, !.key = key, !.keyed = keyed,
                   !.children = children]
VCmpt(c) == [NoVdom EXCEPT !.t = "cmpt", !.c = c]
VDom(n) == [NoVdom EXCEPT !.t = "dom", !.c = n]
\* Od.element(tag, {onodevent: h})
VHook(tag, h) == [NoVdom EXCEPT !.t = "elt", !.tag = tag, !.onodevent = h]

\* The onodevent handlers of the application: "log" does nothing the library
\* can see, "write" writes 1 to the second observable of the script.
Hooks == {"log", "write"}
HookCell == 2

\* The fn of a component: its kind k, the observable x it reads (0 is none),
\* the key and the onodevent handler h of the props of its root element, and
\* the node or the component a that it closes over.
NoFn == [k |-> "none", x |-> 0, key |-> "", h |-> "", a |-> 0]

\* A ComponentInfo (cmptInfo of Od.component); body is the fn of the component
\* key the key property of the component function and vdom the vDOM its
\* observable holds.
NoCmpt ==
    [dom |-> 0, obs |-> 0, subs |-> 0, anonymousSubcomponents |-> <<>>,
     namedSubcomponents |-> [n \in Names |-> 0], updateIsPending |-> FALSE,
     key |-> "", body |-> NoFn, vdom |-> NoVdom]

Keys == {"x", "y"}

\* The value of a component's observable is the function its body returned, a
\* new function object at each evaluation: two tokens, so that the value of
\* an evaluation is never identical to the one before it.
VdomA == 20
VdomB == 21
VdomVals == {VdomA, VdomB}
Fresh(old) == IF old = VdomA THEN VdomB ELSE VdomA

\* The bodies of components: a leaf returns Od.element(x() ? "P" : "DIV",
\* {key}) (a DIV if it reads no observable), a parent reads x and returns
\* Od.element("DIV", null, [Od.component("foo", leaf), Od.component(null, leaf)]).
LeafBody(x, key) == [NoFn EXCEPT !.k = "leaf", !.x = x, !.key = key]
ParentBody(x) == [NoFn EXCEPT !.k = "parent", !.x = x]
\* the same with children that read x:
\* () => { x(); return Od.element("DIV", null, [Od.component("foo", leaf(x)),
\*                                              Od.component(null, leaf(x))]); }
FamilyBody(x) == [NoFn EXCEPT !.k = "parent", !.x = x, !.a = x]
\* () => Od.element("DIV", null, [x() ? "a" : "b"])
DivBody(x) == [NoFn EXCEPT !.k = "div", !.x = x]
\* () => Od.element(x() ? "DIV" : "P", {onodevent: h})
HookBody(x, h) == [NoFn EXCEPT !.k = "hook", !.x = x, !.h = h]
\* () => Od.element("DIV", {onodevent: h}, [x() ? "a" : "b"])
HookDivBody(x, h) == [NoFn EXCEPT !.k = "hookdiv", !.x = x, !.h = h]
\* () => x() ? Od.element("DIV", {key: "x"}) : w, for w = Od.fromDom(n)
DomBody(x, n) == [NoFn EXCEPT !.k = "dom", !.x = x, !.a = n]
\* () => { if (x()) throw "fail"; return Od.element("DIV"); }
FailBody(x) == [NoFn EXCEPT !.k = "fail", !.x = x]
\* () => x() ? Od.element("P") : c, for a component c
RootBody(x, c) == [NoFn EXCEPT !.k = "root", !.x = x, !.a = c]

\* A call of Od.component, a disposal of a component or a patch by
\* updateComponent (created: the component got another node), for the history.
OdEv(op, name, parent, c, created) ==
    [op |-> op, name |-> name, parent |-> parent, c |-> c, created |-> created]
LogOd(s, e) == [s EXCEPT !.od.calls = Append(@, e)]
\* stripNode went on for node dom (no component's node), for the history.
StripEv(dom) == [op |-> "strip", dom |-> dom]

\* The variables of Od as the script leaves them, with Od.deferComponentUpdates
\* as the application sets it (true unless told otherwise).
OdInit(defer) ==
    [nodes |-> <<>>,
     nextNode |-> 1,
     nodesPendingStripping |-> <<>>,
     stripNodesID |-> 0,
     cmpts |-> <<>>,
     nextComponentID |-> 1,
     parentComponentInfo |-> 0,
     componentInfosPendingUpdate |-> <<>>,
     deferredComponentUpdatesID |-> 0,
     rafCallbacks |-> 0,
     deferComponentUpdates |-> defer,
     runningPendingOdEvents |-> FALSE,
     pendingCreatedEventCallbacks |-> <<>>,
     pendingUpdatedEventCallbacks |-> <<>>,
     binds |-> 0,
     bound |-> 0,
     boundVdom |-> NoVdom,
     calls |-> <<>>]

VARIABLES
    nextID,               \* var nextID
    kind,                 \* "none" (not created), "of", "fn", "sub"
    eq,                   \* the eq captured by the closure of Obs.of / Obs.fn
    prog,                 \* the function f of Obs.fn / the action of Obs.subscribe
    value,                \* obs.value
    level,                \* obs.level (undefined | 0 is 0 for a mutable observable)
    dependencies,         \* obs.dependencies: the ids with a non-null entry
    dependents,           \* obs.dependents: the ids with a non-null entry
    hasDependents,        \* whether obs.dependents is an object at all
    subscriptions,        \* obs.subscriptions of a subscription
    isInUpdateQueue,      \* obs.isInUpdateQueue
    updateQ,              \* var updateQ: the heap array
    updateDepth,          \* var updateDepth
    currentDependencies,  \* var currentDependencies: 0 (null) or the id of the
                          \* observable whose dependencies object it is
    disposed,             \* history: the observables Obs.dispose was called on
    disposedQueued,       \* history: those of them that were in the update
                          \* queue when Obs.dispose was called
    failed,               \* history: the computed observables whose last
                          \* evaluation threw
    written,              \* history: the mutable observables the environment
                          \* changed inside the update region that is open,
                          \* or that the last call closed
    evals,                \* history: what the last call evaluated, in order
    phase,                \* the application: "setup" builds the graph, "run" uses it
    od                    \* the state of the vDOM library Od and of the document
                          \* (one field per variable of Od, see OdInit)

vars == <<nextID, kind, eq, prog, value, level, dependencies, dependents,
          hasDependents, subscriptions, isInUpdateQueue, updateQ, updateDepth,
          currentDependencies, disposed, disposedQueued, failed, written,
          evals, phase, od>>

\* The machine state as one record.
State ==
    [nextID |-> nextID, kind |-> kind, eq |-> eq, prog |-> prog, value |-> value,
     level |-> level, dependencies |-> dependencies, dependents |-> dependents,
     hasDependents |-> hasDependents, subscriptions |-> subscriptions,
     isInUpdateQueue |-> isInUpdateQueue, updateQ |-> updateQ,
     updateDepth |-> updateDepth, currentDependencies |-> currentDependencies,
     disposed |-> disposed, disposedQueued |-> disposedQueued,
     failed |-> failed, evals |-> evals, od |-> od]

Commit(t) ==
    /\ nextID' = t.nextID
    /\ kind' = t.kind
    /\ eq' = t.eq
    /\ prog' = t.prog
    /\ value' = t.value
    /\ level' = t.level
    /\ dependencies' = t.dependencies
    /\ dependents' = t.dependents
    /\ hasDependents' = t.hasDependents
    /\ subscriptions' = t.subscriptions
    /\ isInUpdateQueue' = t.isInUpdateQueue
    /\ updateQ' = t.updateQ
    /\ updateDepth' = t.updateDepth
    /\ currentDependencies' = t.currentDependencies
    /\ disposed' = t.disposed
    /\ disposedQueued' = t.disposedQueued
    /\ failed' = t.failed
    /\ evals' = t.evals
    /\ od' = t.od

\* An entry of the history of a call: k is "eval" (the function of computed
\* observable c ran), "action" (the action of subscription c ran), "write"
\* (an action wrote c), "report" (Obs.exceptionReporter was called for c),
\* "throw" (a write to computed observable c threw to the caller) or "call"
\* (the call was c(v)); stale: the function read an observable that was in the
\* update queue; threw: it threw; dead: c had been disposed of; reads: the
\* observables the function read (with c()) before it returned or threw.
Ev(k, c, stale, threw) == [k |-> k, c |-> c, stale |-> stale, threw |-> threw]
EvalEv(c, stale, threw, reads) ==
    [k |-> "eval", c |-> c, stale |-> stale, threw |-> threw, reads |-> reads]

Log(s, e) ==
    [s EXCEPT !.evals = Append(@, [k |-> e.k, c |-> e.c, stale |-> e.stale,
                                   threw |-> e.threw, dead |-> e.c \in s.disposed,
                                   reads |-> IF "reads" \in DOMAIN e
                                             THEN e.reads ELSE {}])]

\* Obs.defaultEq
defaultEq(x, y) == x = y
\* Obs.valueOfEq
valueOfEq(x, y) ==
    \/ Truthy(x) /\ Truthy(y) /\ ValueOf(x) = ValueOf(y)
    \/ ~Truthy(x) /\ ~Truthy(y)
\* Obs.alwaysUpdate
alwaysUpdate(x, y) == FALSE
\* eq(x, y) for the eq named e.
Eq(e, x, y) ==
    CASE e = "defaultEq" -> defaultEq(x, y)
      [] e = "valueOfEq" -> valueOfEq(x, y)
      [] e = "alwaysUpdate" -> alwaysUpdate(x, y)

\* ------------------------------------------------------------ update queue
\* An enqueueUpdate that leaves the new entry at the end of the array.
DownHeap_Append(s, q, i, obs) == [q EXCEPT ![i + 1] = obs]

RECURSIVE DownHeap(_, _, _, _)
\* The loop of enqueueUpdate: i is the (0-based) hole, levelI the level of obs.
DownHeap(s, q, i, obs) ==
    IF i = 0
    THEN [q EXCEPT ![1] = obs]
    ELSE LET j == i \div 2
             obsJ == q[j + 1]
         IN  IF s.level[obsJ] <= s.level[obs]
             THEN [q EXCEPT ![i + 1] = obs]
             ELSE DownHeap(s, [q EXCEPT ![i + 1] = obsJ], j, obs)

\* enqueueUpdate without its isInUpdateQueue test.
enqueueUpdate_NoDedup(s, obs) ==
    LET i == Len(s.updateQ)
        q == Append(s.updateQ, obs)
    IN  [s EXCEPT !.updateQ = DownHeap(s, q, i, obs),
                  !.isInUpdateQueue[obs] = TRUE]

enqueueUpdate(s, obs) ==
    IF s.isInUpdateQueue[obs]
    THEN s
    ELSE LET i == Len(s.updateQ)
             q == Append(s.updateQ, obs)
         IN  [s EXCEPT !.updateQ = DownHeap(s, q, i, obs),
                       !.isInUpdateQueue[obs] = TRUE]

Min(x, y) == IF x <= y THEN x ELSE y

RECURSIVE UpHeap(_, _, _, _, _)
\* The loop of dequeueUpdate: i the hole, j the first child looked at, obsI
\* the entry popped off the end of the array.
UpHeap(s, q, i, j, obsI) ==
    LET n == Len(q)
        levelI == s.level[obsI]
    IN  IF j < n
        THEN LET k == Min(j + 1, n - 1)
                 objJ == q[j + 1]
                 objK == q[k + 1]
                 levelJ == s.level[objJ]
                 levelK == s.level[objK]
             IN  IF levelJ <= levelK
                 THEN IF levelI <= levelJ
                      THEN [q EXCEPT ![i + 1] = obsI]
                      ELSE UpHeap(s, [q EXCEPT ![i + 1] = objJ], j, 2 * j, obsI)
                 ELSE IF levelI <= levelK
                      THEN [q EXCEPT ![i + 1] = obsI]
                      ELSE UpHeap(s, [q EXCEPT ![i + 1] = objK], k, 2 * k, obsI)
        ELSE [q EXCEPT ![i + 1] = obsI]

\* A dequeueUpdate that leaves isInUpdateQueue set.
dequeueUpdate_KeepFlag(s) ==
    IF Len(s.updateQ) = 0
    THEN [s |-> s, obs |-> 0]
    ELSE LET q == SubSeq(s.updateQ, 1, Len(s.updateQ) - 1)
         IN  [s |-> [s EXCEPT !.updateQ =
                         IF Len(q) = 0 THEN q
                         ELSE UpHeap(s, q, 0, 1, s.updateQ[Len(s.updateQ)])],
              obs |-> s.updateQ[1]]

\* dequeueUpdate: the new state and the entry returned (0 for undefined).
dequeueUpdate(s) ==
    IF Len(s.updateQ) = 0
    THEN [s |-> s, obs |-> 0]
    ELSE LET obs == s.updateQ[1]
             obsI == s.updateQ[Len(s.updateQ)]
             q == SubSeq(s.updateQ, 1, Len(s.updateQ) - 1)
             s1 == [s EXCEPT !.isInUpdateQueue[obs] = FALSE]
         IN  IF Len(q) = 0
             THEN [s |-> [s1 EXCEPT !.updateQ = q], obs |-> obs]
             ELSE [s |-> [s1 EXCEPT !.updateQ = UpHeap(s1, q, 0, 1, obsI)],
                   obs |-> obs]

\* Obs.startUpdate
startUpdate(s) == [s EXCEPT !.updateDepth = @ + 1]

\* ------------------------------------------------------------ dependencies
\* A breakDependencies that leaves the links of the last evaluation.
breakDependencies_Keep(s, obs) == s

\* breakDependencies: every entry of obs.dependencies becomes null and obs
\* leaves the dependents of each.  An observable without a dependencies
\* object (mutable, subscription) has none in the model.
breakDependencies(s, obs) ==
    [s EXCEPT !.dependencies[obs] = {},
              !.dependents = [d \in DOMAIN s.dependents |->
                                 IF d \in s.dependencies[obs]
                                 THEN s.dependents[d] \ {obs}
                                 ELSE s.dependents[d]]]

MaxOf(S) == CHOOSE x \in S : \A y \in S : y <= x

\* establishDependencies: obs joins the dependents of every dependency and
\* takes a level one above the highest of them (0 without any).
establishDependencies(s, obs) ==
    LET deps == s.dependencies[obs]
        obsLevel == IF deps = {} THEN 0
                    ELSE 1 + MaxOf({s.level[d] : d \in deps})
    IN  [s EXCEPT !.dependents = [d \in DOMAIN s.dependents |->
                                     IF d \in deps
                                     THEN s.dependents[d] \cup {obs}
                                     ELSE s.dependents[d]],
                  !.hasDependents = [d \in DOMAIN s.hasDependents |->
                                        s.hasDependents[d] \/ d \in deps],
                  !.level[obs] = obsLevel]

\* The read branch of readOrWriteObs (argc = 0): the value is s.value[obs].
readObs(s, obs) ==
    IF s.currentDependencies # 0
    THEN [s EXCEPT !.dependencies[s.currentDependencies] = @ \cup {obs}]
    ELSE s

\* A dispose that clears the value and the dependents but leaves obs among
\* the dependents of the observables it read.
dispose_KeepLinks(s, obs) ==
    [s EXCEPT !.value[obs] = Null, !.disposed = @ \cup {obs},
              !.disposedQueued =
                  IF s.isInUpdateQueue[obs] /\ obs \notin s.disposed
                  THEN @ \cup {obs} ELSE @,
              !.dependents[obs] = {}, !.hasDependents[obs] = TRUE,
              !.subscriptions[obs] = {}]

\* A peek that records the observable as a read does.
peek_Registers(s, obs) ==
    IF s.currentDependencies # 0
    THEN [s EXCEPT !.dependencies[s.currentDependencies] = @ \cup {obs}]
    ELSE s

\* Obs.peek: the value is s.value[obs]; nothing is recorded.
peek(s, obs) == s

\* Obs.dispose
dispose(s, obs) ==
    LET s1 == [s EXCEPT !.value[obs] = Null, !.disposed = @ \cup {obs},
                        !.disposedQueued =
                            IF s.isInUpdateQueue[obs] /\ obs \notin s.disposed
                            THEN @ \cup {obs} ELSE @]
        s2 == breakDependencies(s1, obs)
        s3 == [s2 EXCEPT !.dependents[obs] = {}, !.hasDependents[obs] = TRUE]
    IN  [s3 EXCEPT !.dependents = [d \in DOMAIN s.dependents |->
                                      IF d \in s.subscriptions[obs]
                                      THEN s3.dependents[d] \ {obs}
                                      ELSE s3.dependents[d]],
                   !.subscriptions[obs] = {}]

\* ------------------------------------------------------------- evaluation
\* The function f of a computed observable run in state s: the state after its
\* reads, the value returned, whether it threw, and the observables it read.
RECURSIVE cmptBody(_, _)
RECURSIVE cmptSubsAction(_, _)
RECURSIVE writeObs(_, _, _)
RECURSIVE lifecycleFn(_, _, _, _)

\* Whether fn() of a component threw.
FnThrew(r) == "threw" \in DOMAIN r /\ r.threw

\* What the function of a component's observable returns: the vDOM is kept
\* for the observable, whose value is the token val.
CmptResult(r, c, val) ==
    IF FnThrew(r)
    THEN [s |-> r.s, val |-> Undefined, threw |-> TRUE, reads |-> r.reads]
    ELSE [s |-> [r.s EXCEPT !.od.cmpts[c].vdom = r.vdom], val |-> val,
          threw |-> FALSE, reads |-> r.reads]

\* set(a, b) after a(1) gave the state s1: b is read.
SetRead(s1, p) ==
    [s |-> readObs(s1, p.b), val |-> s1.value[p.b], threw |-> FALSE, reads |-> {p.b}]

EvalFn(s, obs) ==
    LET p == s.prog[obs]
        sa == readObs(s, p.a)
        sab == readObs(sa, p.b)
    IN  CASE p.k = "id" ->
               [s |-> sa, val |-> s.value[p.a], threw |-> FALSE, reads |-> {p.a}]
          [] p.k = "sum" ->
               [s |-> sab, val |-> (ToInt(s.value[p.a]) + ToInt(s.value[p.b])) % 2,
                threw |-> FALSE, reads |-> {p.a, p.b}]
          [] p.k = "cond" ->
               IF Truthy(s.value[p.a])
               THEN [s |-> sab, val |-> s.value[p.b], threw |-> FALSE,
                     reads |-> {p.a, p.b}]
               ELSE [s |-> sa, val |-> 1, threw |-> FALSE, reads |-> {p.a}]
          [] p.k = "peek" ->
               [s |-> peek(sa, p.b), val |-> s.value[p.b], threw |-> FALSE,
                reads |-> {p.a}]
          [] p.k = "cmpt" -> CmptResult(cmptBody(s, p.a), p.a, Fresh(s.value[obs]))
          [] p.k = "set" -> SetRead(writeObs(s, p.a, 1), p)
          [] p.k = "guard" ->
               IF s.value[p.a] = 1
               THEN [s |-> sa, val |-> Undefined, threw |-> TRUE, reads |-> {p.a}]
               ELSE [s |-> sab, val |-> s.value[p.b], threw |-> FALSE,
                     reads |-> {p.a, p.b}]

\* Obs.exceptionReporter, called in the catch of tryReevaluateObsFn: the
\* history records the call.
exceptionReporter(s, obs) == Log(s, Ev("report", obs, FALSE, FALSE))

\* The rest of updateComputedObs once the function has run and given r: the
\* history records the evaluation; on a throw the value is left alone.
Evaluated(s, obs, r, stale, onThrow) ==
    IF r.threw
    THEN [s |-> exceptionReporter(
                    [Log(r.s, EvalEv(obs, stale, TRUE, r.reads)) EXCEPT
                        !.failed = @ \cup {obs}], obs),
          hasChanged |-> onThrow]
    ELSE [s |-> [Log(r.s, EvalEv(obs, stale, FALSE, r.reads)) EXCEPT
                    !.value[obs] = r.val, !.failed = @ \ {obs}],
          hasChanged |-> ~Eq(s.eq[obs], s.value[obs], r.val)]

\* Whether the function read an observable that is still in the update queue.
Stale(s, r) == \E d \in r.reads : s.isInUpdateQueue[d]

\* The function has run: stale is told from the state before it.
EvalDone(s, obs, r, onThrow) == Evaluated(s, obs, r, Stale(s, r), onThrow)

\* An evaluation that reports a change when the function throws.
updateComputedObs_ThrowChanged(s, obs) == EvalDone(s, obs, EvalFn(s, obs), TRUE)

\* updateComputedObs inside the try of tryReevaluateObsFn, for a computed
\* observable: on a throw the value is left alone and false is returned.
updateComputedObs(s, obs) == EvalDone(s, obs, EvalFn(s, obs), FALSE)

MinOf(S) == CHOOSE x \in S : \A y \in S : x <= y

RECURSIVE EnqueueAll(_, _)
\* The loop of Obs.updateDependents: for (var id in dependents), which visits
\* integer keys in ascending order.
EnqueueAll(s, S) ==
    IF S = {}
    THEN s
    ELSE EnqueueAll(enqueueUpdate(s, MinOf(S)), S \ {MinOf(S)})

RECURSIVE processUpdateQueue(_)
RECURSIVE reevaluateComputedObs(_, _)
RECURSIVE tryReevaluateObsFn(_, _)
RECURSIVE subsAction(_, _)
RECURSIVE updateDependents(_, _)
RECURSIVE endUpdate(_)

\* An endUpdate that runs the queue whatever the depth.
endUpdate_AlwaysFlush(s) ==
    processUpdateQueue(IF s.updateDepth # 0
                       THEN [s EXCEPT !.updateDepth = @ - 1] ELSE s)

\* Obs.endUpdate
endUpdate(s) ==
    LET s1 == IF s.updateDepth # 0 THEN [s EXCEPT !.updateDepth = @ - 1] ELSE s
    IN  IF s1.updateDepth = 0 THEN processUpdateQueue(s1) ELSE s1

\* Obs.updateDependents
updateDependents(s, obs) ==
    IF ~s.hasDependents[obs]
    THEN s
    ELSE endUpdate(EnqueueAll(startUpdate(s), s.dependents[obs]))

\* A write that stores into a computed observable as into a mutable one.
writeObs_NoFnTest(s, obs, newX) ==
    LET oldX == s.value[obs]
        s1 == [s EXCEPT !.value[obs] = newX]
    IN  IF ~Eq(s.eq[obs], oldX, newX) THEN updateDependents(s1, obs) ELSE s1

\* A write that updates the dependents whatever eq says.
writeObs_AlwaysPropagate(s, obs, newX) ==
    IF s.kind[obs] = "fn"
    THEN Log(s, Ev("throw", obs, FALSE, FALSE))
    ELSE updateDependents([s EXCEPT !.value[obs] = newX], obs)

\* The write branch of readOrWriteObs (argc = 1).  On a computed observable
\* it throws "Computed observables cannot be assigned to." to the caller,
\* which the history records.
writeObs(s, obs, newX) ==
    IF s.kind[obs] = "fn"
    THEN Log(s, Ev("throw", obs, FALSE, FALSE))
    ELSE LET oldX == s.value[obs]
             s1 == [s EXCEPT !.value[obs] = newX]
         IN  IF ~Eq(s.eq[obs], oldX, newX) THEN updateDependents(s1, obs) ELSE s1

\* The action of subscription obs runs, for the history, with what it reads.
ActionEv(obs, p) ==
    [k |-> "action", c |-> obs, stale |-> FALSE, threw |-> FALSE,
     reads |-> IF p.k = "read" THEN {p.a} ELSE {}]

\* subsAction of Obs.subscribe: the action runs with dependency tracking
\* suspended.
subsAction(s, obs) ==
    LET tmp == s.currentDependencies
        p == s.prog[obs]
        s1 == Log([s EXCEPT !.currentDependencies = 0], ActionEv(obs, p))
        s2 == CASE p.k = "noop" -> s1
                [] p.k = "read" -> readObs(s1, p.a)
                [] p.k = "cmptUpdate" -> cmptSubsAction(s1, p.a)
                [] p.k = "writeZero" ->
                       writeObs(Log(s1, Ev("write", p.a, FALSE, FALSE)), p.a, 0)
    IN  [s2 EXCEPT !.currentDependencies = tmp]

\* tryReevaluateObsFn: obs.fn() is updateComputedObs for a computed
\* observable and subsAction (which returns nothing) for a subscription.
tryReevaluateObsFn(s, obs) ==
    IF s.kind[obs] = "sub"
    THEN [s |-> subsAction(s, obs), hasChanged |-> FALSE]
    ELSE updateComputedObs(s, obs)

\* A re-evaluation that establishes no dependencies when the function threw.
reevaluateComputedObs_ThrowUnlinks(s, obs) ==
    LET oldCurrentDependencies == s.currentDependencies
        s1 == [s EXCEPT !.currentDependencies =
                            IF s.kind[obs] = "fn" THEN obs ELSE 0]
        s2 == breakDependencies(s1, obs)
        r == tryReevaluateObsFn(s2, obs)
        s3 == IF obs \in r.s.failed THEN r.s ELSE establishDependencies(r.s, obs)
        s4 == [s3 EXCEPT !.currentDependencies = oldCurrentDependencies]
    IN  IF r.hasChanged THEN updateDependents(s4, obs) ELSE s4

\* A re-evaluation that does not put currentDependencies back.
reevaluateComputedObs_NoRestore(s, obs) ==
    LET s1 == [s EXCEPT !.currentDependencies =
                            IF s.kind[obs] = "fn" THEN obs ELSE 0]
        s2 == breakDependencies(s1, obs)
        r == tryReevaluateObsFn(s2, obs)
        s3 == establishDependencies(r.s, obs)
    IN  IF r.hasChanged THEN updateDependents(s3, obs) ELSE s3

\* A re-evaluation that never passes a change on to the dependents.
reevaluateComputedObs_NoPropagate(s, obs) ==
    LET oldCurrentDependencies == s.currentDependencies
        s1 == [s EXCEPT !.currentDependencies =
                            IF s.kind[obs] = "fn" THEN obs ELSE 0]
        s2 == breakDependencies(s1, obs)
        r == tryReevaluateObsFn(s2, obs)
        s3 == establishDependencies(r.s, obs)
    IN  [s3 EXCEPT !.currentDependencies = oldCurrentDependencies]

\* reevaluateComputedObs.  currentDependencies becomes obs.dependencies,
\* which a subscription does not have (undefined: nothing is recorded).
reevaluateComputedObs(s, obs) ==
    LET oldCurrentDependencies == s.currentDependencies
        s1 == [s EXCEPT !.currentDependencies =
                            IF s.kind[obs] = "fn" THEN obs ELSE 0]
        s2 == breakDependencies(s1, obs)
        r == tryReevaluateObsFn(s2, obs)
        s3 == establishDependencies(r.s, obs)
        s4 == [s3 EXCEPT !.currentDependencies = oldCurrentDependencies]
    IN  IF r.hasChanged THEN updateDependents(s4, obs) ELSE s4

\* A processUpdateQueue that takes one entry and returns.
processUpdateQueue_Once(s) ==
    LET d == dequeueUpdate(s)
    IN  IF d.obs = 0 THEN d.s ELSE reevaluateComputedObs(d.s, d.obs)

\* A processUpdateQueue that a throwing function ends.
processUpdateQueue_AbortOnThrow(s) ==
    LET d == dequeueUpdate(s)
    IN  IF d.obs = 0
        THEN d.s
        ELSE LET t == reevaluateComputedObs(d.s, d.obs)
             IN  IF d.obs \in t.failed THEN t ELSE processUpdateQueue(t)

\* processUpdateQueue
processUpdateQueue(s) ==
    LET d == dequeueUpdate(s)
    IN  IF d.obs = 0
        THEN d.s
        ELSE processUpdateQueue(reevaluateComputedObs(d.s, d.obs))

\* Obs.of (eq || Obs.defaultEq)
ObsOf(s, x, e) ==
    LET obs == s.nextID
    IN  [s EXCEPT !.nextID = @ + 1, !.kind[obs] = "of", !.value[obs] = x,
                  !.eq[obs] = e]

\* Obs.fn
ObsFn(s, f) ==
    LET obs == s.nextID
        s1 == [s EXCEPT !.nextID = @ + 1, !.kind[obs] = "fn", !.prog[obs] = f,
                        !.dependencies[obs] = {}]
    IN  reevaluateComputedObs(s1, obs)

\* Obs.subscribe
ObsSubscribe(s, obss, action) ==
    LET id == s.nextID
    IN  [s EXCEPT !.nextID = @ + 1, !.kind[id] = "sub", !.prog[id] = action,
                  !.dependents = [d \in DOMAIN s.dependents |->
                                     IF d \in obss THEN s.dependents[d] \cup {id}
                                     ELSE s.dependents[d]],
                  !.hasDependents = [d \in DOMAIN s.hasDependents |->
                                        s.hasDependents[d] \/ d \in obss],
                  !.value[id] = Undefined,
                  !.subscriptions[id] = obss,
                  !.level[id] = SubscriptionLevel]

\* ------------------------------------------------------ Od: the document
\* The operations of the browser's document the library calls.  A node that
\* is inserted is first taken out of the parent it has.
Without(q, n) == SelectSeq(q, LAMBDA x : x # n)

IndexOf(q, n) == CHOOSE i \in 1..Len(q) : q[i] = n

Detach(s, n) ==
    LET p == s.od.nodes[n].parent
    IN  IF p = 0
        THEN s
        ELSE [s EXCEPT !.od.nodes[p].children = Without(@, n),
                       !.od.nodes[n].parent = 0]

\* document.createTextNode(txt): the new state and the node.
createTextNode(s, txt) ==
    [s |-> [s EXCEPT !.od.nodes =
                         Append(@, [NoNode EXCEPT !.kind = "text", !.text = txt]),
                     !.od.nextNode = @ + 1],
     dom |-> s.od.nextNode]

\* document.createElement(tag)
createElement(s, tag) ==
    [s |-> [s EXCEPT !.od.nodes =
                         Append(@, [NoNode EXCEPT !.kind = "elt", !.tag = tag]),
                     !.od.nextNode = @ + 1],
     dom |-> s.od.nextNode]

\* n, which has no parent, becomes the last child of parent
PutLast(s, parent, n) ==
    [s EXCEPT !.od.nodes[parent].children = Append(@, n),
              !.od.nodes[n].parent = parent]

\* parent.appendChild(n)
appendChild(s, parent, n) == PutLast(Detach(s, n), parent, n)

\* parent.removeChild(n)
removeChild(s, parent, n) == Detach(s, n)

\* q with n put before its i-th element
InsertAt(q, i, n) == SubSeq(q, 1, i - 1) \o <<n>> \o SubSeq(q, i, Len(q))

\* n, which has no parent, becomes the child of parent before ref
PutBefore(s, parent, n, ref) ==
    [s EXCEPT !.od.nodes[parent].children = InsertAt(@, IndexOf(@, ref), n),
              !.od.nodes[n].parent = parent]

\* parent.insertBefore(n, ref)
insertBefore(s, parent, n, ref) ==
    IF n = ref THEN s ELSE PutBefore(Detach(s, n), parent, n, ref)

\* newDom, which has no parent, takes the place of oldDom in parent
PutFor(s, parent, newDom, oldDom) ==
    [s EXCEPT !.od.nodes[parent].children = [@ EXCEPT ![IndexOf(@, oldDom)] = newDom],
              !.od.nodes[newDom].parent = parent,
              !.od.nodes[oldDom].parent = 0]

\* parent.replaceChild(newDom, oldDom)
replaceChild(s, parent, newDom, oldDom) ==
    IF newDom = oldDom THEN s ELSE PutFor(Detach(s, newDom), parent, newDom, oldDom)

\* n.nextSibling (0 is null)
nextSibling(s, n) ==
    LET p == s.od.nodes[n].parent
    IN  IF p = 0
        THEN 0
        ELSE LET q == s.od.nodes[p].children
                 i == IndexOf(q, n)
             IN  IF i < Len(q) THEN q[i + 1] ELSE 0

\* parent.firstChild
firstChild(s, parent) ==
    LET q == s.od.nodes[parent].children
    IN  IF q = <<>> THEN 0 ELSE q[1]

\* ------------------------------------------------------ Od: patching
\* domComponentID / isComponentDom / setDomComponentID / clearDomComponentID
domComponentID(s, dom) == s.od.nodes[dom].cid
\* An isComponentDom that takes no node for a component's.
isComponentDom_Never(s, dom) == FALSE
isComponentDom(s, dom) == domComponentID(s, dom) # 0
setDomComponentID(s, dom, componentID) == [s EXCEPT !.od.nodes[dom].cid = componentID]
clearDomComponentID(s, dom) == setDomComponentID(s, dom, 0)

\* enqueueNodeForStripping; stripNodesID 1 is the handle of the timer.
enqueueNodeForStripping(s, dom) ==
    IF dom = 0
    THEN s
    ELSE IF isComponentDom(s, dom)
    THEN s
    ELSE [s EXCEPT !.od.nodesPendingStripping = Append(@, dom),
                   !.od.stripNodesID = 1]

\* patchNode once oldDom is enqueued for stripping
Place(s, newDom, oldDom, parent) ==
    IF parent = 0
    THEN s
    ELSE IF newDom = 0
    THEN IF oldDom # 0 THEN removeChild(s, parent, oldDom) ELSE s
    ELSE IF oldDom = 0
    THEN appendChild(s, parent, newDom)
    ELSE replaceChild(s, parent, newDom, oldDom)

\* patchNode
patchNode(s, newDom, oldDom, parent) ==
    IF newDom = oldDom
    THEN s
    ELSE Place(enqueueNodeForStripping(s, oldDom), newDom, oldDom, parent)

\* patchText with the text node r.dom just created
PlaceText(r, dom, parent) == [s |-> patchNode(r.s, r.dom, dom, parent), dom |-> r.dom]

\* patchText: the new state and the node returned.
patchText(s, content, dom, parent) ==
    IF dom = 0 \/ s.od.nodes[dom].kind # "text" \/ isComponentDom(s, dom)
    THEN PlaceText(createTextNode(s, content), dom, parent)
    ELSE [s |-> IF s.od.nodes[dom].text # content
                THEN [s EXCEPT !.od.nodes[dom].text = content]
                ELSE s,
          dom |-> dom]

\* patchProps for the props key and keyed: a prop of the vDOM is copied to
\* the node, one the node had from the previous props and the vDOM has not
\* becomes null.
patchProps(s, elt, v) ==
    [s EXCEPT !.od.nodes[elt].key = v.key, !.od.nodes[elt].keyed = v.keyed,
              !.od.nodes[elt].onodevent = v.onodevent,
              !.od.nodes[elt].odProps = v.onodevent]

\* handleElementLifecycleFn, were no call queued.
handleElementLifecycleFn_None(s, v, newDom, oldDom) == s

\* handleElementLifecycleFn(props, newDom, oldDom)
handleElementLifecycleFn(s, v, newDom, oldDom) ==
    IF v.onodevent = ""
    THEN s
    ELSE IF newDom # oldDom
    THEN [s EXCEPT !.od.pendingCreatedEventCallbacks = Append(@, newDom)]
    ELSE [s EXCEPT !.od.pendingUpdatedEventCallbacks = Append(@, newDom)]

\* callback(what, dom) for the handler the node has now, if any.
Callback(s, what, dom) ==
    IF s.od.nodes[dom].onodevent # ""
    THEN lifecycleFn(s, s.od.nodes[dom].onodevent, what, dom)
    ELSE s

\* runPendingCreatedEventCallbacks from index i: the list is read again at
\* each turn of the loop, and emptied after it.
RECURSIVE runPendingCreatedEventCallbacks(_, _)
runPendingCreatedEventCallbacks(s, i) ==
    IF i > Len(s.od.pendingCreatedEventCallbacks)
    THEN [s EXCEPT !.od.pendingCreatedEventCallbacks = <<>>]
    ELSE runPendingCreatedEventCallbacks(
             Callback(s, "created", s.od.pendingCreatedEventCallbacks[i]), i + 1)

\* runPendingUpdatedEventCallbacks from index i
RECURSIVE runPendingUpdatedEventCallbacks(_, _)
runPendingUpdatedEventCallbacks(s, i) ==
    IF i > Len(s.od.pendingUpdatedEventCallbacks)
    THEN [s EXCEPT !.od.pendingUpdatedEventCallbacks = <<>>]
    ELSE runPendingUpdatedEventCallbacks(
             Callback(s, "updated", s.od.pendingUpdatedEventCallbacks[i]), i + 1)

\* The outermost runPendingOdEventCallbacks returns, for the history, with
\* the nodes the two lists hold then.
Delivered(s) ==
    LogOd([s EXCEPT !.od.runningPendingOdEvents = FALSE],
          [op |-> "delivered", created |-> s.od.pendingCreatedEventCallbacks,
           updated |-> s.od.pendingUpdatedEventCallbacks])

\* runPendingOdEventCallbacks
runPendingOdEventCallbacks(s) ==
    IF s.od.runningPendingOdEvents
    THEN s
    ELSE Delivered(runPendingUpdatedEventCallbacks(
                       runPendingCreatedEventCallbacks(
                           [s EXCEPT !.od.runningPendingOdEvents = TRUE], 1), 1))

\* The key property of a vDOM: of an element function its props' key, of a
\* component function the key its first DOM node had, of a string none.
VKey(s, v) ==
    IF v.t = "cmpt" THEN s.od.cmpts[v.c].key
    ELSE IF v.t = "elt" THEN v.key
    ELSE ""

\* keyToChild of reorderKeyedChildren: the last child that carries the key.
KeyToChild(s, parent) ==
    LET q == s.od.nodes[parent].children
    IN  [k \in Keys |->
            LET I == {i \in 1..Len(q) : s.od.nodes[q[i]].key = k}
            IN  IF I = {} THEN 0 ELSE q[MaxOf(I)]]

\* The second loop of reorderKeyedChildren from index i with the cursor child.
\* The placeholder r.dom just created goes before child, or last if child
\* is null.
PutPlaceholder(r, parent, child) ==
    IF child # 0
    THEN insertBefore(r.s, parent, r.dom, child)
    ELSE appendChild(r.s, parent, r.dom)

RECURSIVE ReorderLoop(_, _, _, _, _, _)
ReorderLoop(s, vchildren, parent, keyToChild, i, child) ==
    IF i > Len(vchildren)
    THEN s
    ELSE LET vkey == VKey(s, vchildren[i])
         IN  IF vkey = ""
             THEN s
             ELSE LET ckey == IF child = 0 THEN "" ELSE s.od.nodes[child].key
                      requiredChild == keyToChild[vkey]
                  IN  IF child # 0
                      THEN IF ckey = vkey
                           THEN ReorderLoop(s, vchildren, parent, keyToChild, i + 1,
                                            nextSibling(s, child))
                           ELSE IF requiredChild # 0
                           THEN ReorderLoop(insertBefore(s, parent, requiredChild, child),
                                            vchildren, parent, keyToChild, i + 1, child)
                           ELSE ReorderLoop(PutPlaceholder(createElement(s, "DIV"),
                                                           parent, child),
                                            vchildren, parent, keyToChild, i + 1, child)
                      ELSE IF requiredChild # 0
                      THEN ReorderLoop(appendChild(s, parent, requiredChild),
                                       vchildren, parent, keyToChild, i + 1, child)
                      ELSE ReorderLoop(PutPlaceholder(createElement(s, "DIV"),
                                                      parent, child),
                                       vchildren, parent, keyToChild, i + 1, child)

\* A reorderKeyedChildren that leaves the children in the order they have.
reorderKeyedChildren_Skip(s, vchildren, parent) == s

\* reorderKeyedChildren
reorderKeyedChildren(s, vchildren, parent) ==
    LET q == s.od.nodes[parent].children
    IN  IF Len(vchildren) = 0 \/ q = <<>>
        THEN s
        ELSE IF \E i \in 1..Len(q) : s.od.nodes[q[i]].key = ""
        THEN s
        ELSE ReorderLoop(s, vchildren, parent, KeyToChild(s, parent), 1, q[1])

\* A component function that keeps the node in place when there is one.
cmpt_InPlace(s, c, dom, parent) ==
    IF dom = 0
    THEN [s |-> patchNode(s, s.od.cmpts[c].dom, dom, parent), dom |-> s.od.cmpts[c].dom]
    ELSE [s |-> s, dom |-> dom]

\* The function Od.component returns, applied to (dom, parent).
cmpt(s, c, dom, parent) ==
    LET cmptDom == s.od.cmpts[c].dom
    IN  [s |-> patchNode(s, cmptDom, dom, parent), dom |-> cmptDom]

\* The function Od.fromDom(srcDom) returns, applied to (dom, parent).
fromDom(s, srcDom, dom, parent) ==
    [s |-> patchNode(s, srcDom, dom, parent), dom |-> srcDom]

\* A patchChildren that leaves the extraneous children where they are.
RemoveLoop_KeepAll(s, parent, echild) == s

\* The last loop of patchChildren: the live children from echild on go.
RECURSIVE RemoveLoop(_, _, _)
RemoveLoop(s, parent, echild) ==
    IF echild = 0
    THEN s
    ELSE LET nextEChild == nextSibling(s, echild)
         IN  RemoveLoop(patchNode(s, 0, echild, parent), parent, nextEChild)

RECURSIVE patchFromVdom(_, _, _, _)
RECURSIVE vdom(_, _, _, _)
RECURSIVE PatchElement(_, _, _, _)
RECURSIVE patchChildren(_, _, _)
RECURSIVE PatchFrom(_, _, _)
RECURSIVE PatchLoop(_, _, _, _, _)
RECURSIVE PatchNext(_, _, _, _)

\* patchFromVdom: the new state and the node returned.
patchFromVdom(s, v, dom, parent) ==
    IF v.t = "elt" THEN vdom(s, v, dom, parent)
    ELSE IF v.t = "cmpt" THEN cmpt(s, v.c, dom, parent)
    ELSE IF v.t = "dom" THEN fromDom(s, v.c, dom, parent)
    ELSE patchText(s, v.text, dom, parent)

\* The function Od.element returns, applied to (dom, parent).
vdom(s, v, dom, parent) ==
    IF dom = 0 \/ s.od.nodes[dom].tag # v.tag \/ isComponentDom(s, dom)
    THEN PatchElement(createElement(s, v.tag), v, dom, parent)
    ELSE PatchElement([s |-> s, dom |-> dom], v, dom, parent)

\* The rest of that function with newDom (r.dom) chosen: patchNode,
\* patchProps, patchChildren.
PatchElement(r, v, dom, parent) ==
    [s |-> handleElementLifecycleFn(
               patchChildren(patchProps(patchNode(r.s, r.dom, dom, parent), r.dom, v),
                             r.dom, v.children),
               v, r.dom, dom),
     dom |-> r.dom]

\* The first loop of patchChildren from index i with the cursor echild.
PatchLoop(s, parent, vchildren, i, echild) ==
    IF i > Len(vchildren)
    THEN RemoveLoop(s, parent, echild)
    ELSE PatchNext(patchFromVdom(s, vchildren[i], echild, parent), parent,
                   vchildren, i)

\* The loop goes on after patchedEChild (r.dom).
PatchNext(r, parent, vchildren, i) ==
    PatchLoop(r.s, parent, vchildren, i + 1, nextSibling(r.s, r.dom))

\* patchChildren once the children are reordered
PatchFrom(s, parent, vchildren) ==
    PatchLoop(s, parent, vchildren, 1, firstChild(s, parent))

\* patchChildren
patchChildren(s, parent, vchildren) ==
    IF s.od.nodes[parent].keyed
    THEN PatchFrom(reorderKeyedChildren(s, vchildren, parent), parent, vchildren)
    ELSE PatchFrom(s, parent, vchildren)

\* ------------------------------------------------------ Od: components
RECURSIVE OdComponent(_, _, _)
RECURSIVE NewComponent(_, _, _, _, _, _)
RECURSIVE ComponentDom(_, _, _, _, _)
RECURSIVE ComponentSubs(_, _, _, _, _)
RECURSIVE ComponentSubscribe(_, _, _, _, _, _)
RECURSIVE ComponentFill(_, _, _, _, _, _, _)
RECURSIVE BodyFn(_, _)
RECURSIVE BodyParent(_, _, _)
RECURSIVE BodyParent2(_, _)
RECURSIVE BodyRun(_, _, _)
RECURSIVE disposeComponent(_, _)
RECURSIVE disposeAnonymousSubcomponents(_, _)
RECURSIVE disposeNamedSubcomponents(_, _, _)

\* existingNamedComponent; the name "" is null.
existingNamedComponent_None(s, name) == 0
existingNamedComponent(s, name) ==
    IF name # "" /\ s.od.parentComponentInfo # 0
    THEN s.od.cmpts[s.od.parentComponentInfo].namedSubcomponents[name]
    ELSE 0

\* cmpt.dispose is set once Od.component has subscribed to the observable.
HasDispose(s, c) == s.od.cmpts[c].subs # 0

\* Od.dispose of a component function (0 is null: nothing happens)
OdDispose(s, c) == IF c = 0 \/ ~HasDispose(s, c) THEN s ELSE disposeComponent(s, c)

\* disposeAnonymousSubcomponents: pop and dispose until the list is empty.
disposeAnonymousSubcomponents(s, c) ==
    LET cmpts == s.od.cmpts[c].anonymousSubcomponents
    IN  IF cmpts = <<>>
        THEN s
        ELSE disposeAnonymousSubcomponents(
                 OdDispose([s EXCEPT !.od.cmpts[c].anonymousSubcomponents =
                                         SubSeq(cmpts, 1, Len(cmpts) - 1)],
                           cmpts[Len(cmpts)]),
                 c)

\* cmpts[name] = null
ForgetNamed(s, c, name) == [s EXCEPT !.od.cmpts[c].namedSubcomponents[name] = 0]

\* disposeNamedSubcomponents over the names left
disposeNamedSubcomponents(s, c, names) ==
    IF names = {}
    THEN s
    ELSE LET name == CHOOSE n \in names : TRUE
         IN  disposeNamedSubcomponents(
                 ForgetNamed(OdDispose(s, s.od.cmpts[c].namedSubcomponents[name]),
                             c, name),
                 c, names \ {name})

\* The end of disposeComponent: Obs.dispose(cmptInfo.subs),
\* Obs.dispose(cmptInfo.obs), clearDomComponentID(dom).
DisposeCells(s, c) ==
    clearDomComponentID(dispose(dispose(s, s.od.cmpts[c].subs), s.od.cmpts[c].obs),
                        s.od.cmpts[c].dom)

\* disposeComponent
disposeComponent(s, c) ==
    DisposeCells(
        disposeNamedSubcomponents(
            disposeAnonymousSubcomponents(LogOd(s, OdEv("dispose", "", 0, c, FALSE)), c),
            c, Names),
        c)

\* Od.fromDom(srcDom): the new state and the vDOM.
OdFromDom(s, srcDom) ==
    [s |-> setDomComponentID(s, srcDom, Infinity), vdom |-> VDom(srcDom)]

\* fn() of a component that reads x and makes no component: the vDOM.
BodyVdom(s, body) ==
    CASE body.k = "div" ->
           VElt("DIV", "", FALSE, <<VText(IF Truthy(s.value[body.x]) THEN "a" ELSE "b")>>)
      [] body.k = "hook" ->
           VHook(IF Truthy(s.value[body.x]) THEN "DIV" ELSE "P", body.h)
      [] body.k = "hookdiv" ->
           [VHook("DIV", body.h) EXCEPT
               !.children = <<VText(IF Truthy(s.value[body.x]) THEN "a" ELSE "b")>>]
      [] body.k = "dom" ->
           IF Truthy(s.value[body.x]) THEN VElt("DIV", "x", FALSE, <<>>)
           ELSE VDom(body.a)
      [] body.k = "root" ->
           IF Truthy(s.value[body.x]) THEN VElt("P", "", FALSE, <<>>)
           ELSE VCmpt(body.a)

\* fn() of a component: the new state, the vDOM and the observables read.
BodyFn(s, body) ==
    IF body.k = "leaf"
    THEN [s |-> IF body.x # 0 THEN readObs(s, body.x) ELSE s,
          vdom |-> VElt(IF body.x # 0 /\ Truthy(s.value[body.x])
                        THEN "P" ELSE "DIV", body.key, FALSE, <<>>),
          reads |-> IF body.x # 0 THEN {body.x} ELSE {}]
    ELSE IF body.k = "fail"
    THEN [s |-> readObs(s, body.x), vdom |-> VElt("DIV", "", FALSE, <<>>),
          reads |-> {body.x}, threw |-> Truthy(s.value[body.x])]
    ELSE IF body.k # "parent"
    THEN [s |-> readObs(s, body.x), vdom |-> BodyVdom(s, body), reads |-> {body.x}]
    ELSE BodyParent(OdComponent(IF body.x # 0 THEN readObs(s, body.x) ELSE s,
                                "foo", LeafBody(body.a, "")),
                    body.a, IF body.x # 0 THEN {body.x} ELSE {})

\* The body of a parent after Od.component("foo", leaf) gave r1.c
BodyParent(r1, a, reads) ==
    BodyParent2([r |-> OdComponent(r1.s, "", LeafBody(a, "")), c1 |-> r1.c], reads)

\* and after Od.component(null, leaf) gave rr.r.c
BodyParent2(rr, reads) ==
    [s |-> rr.r.s,
     vdom |-> VElt("DIV", "", FALSE, <<VCmpt(rr.c1), VCmpt(rr.r.c)>>),
     reads |-> reads]

\* The function Od.component gives to Obs.fn.
cmptBody(s, c) ==
    BodyRun(disposeAnonymousSubcomponents([s EXCEPT !.od.parentComponentInfo = c], c),
            c, s.od.parentComponentInfo)

\* fn() has run: parentComponentInfo is put back unless fn threw, for the
\* assignment comes after the call and no finally holds it.
BodyDone(r, oldParentComponentInfo) ==
    IF FnThrew(r)
    THEN r
    ELSE [r EXCEPT !.s.od.parentComponentInfo = oldParentComponentInfo]

\* fn() runs.
BodyRun(s, c, oldParentComponentInfo) ==
    BodyDone(BodyFn(s, s.od.cmpts[c].body), oldParentComponentInfo)

\* Od.component(name, fn): the new state and the component.
OdComponent(s, name, body) ==
    IF existingNamedComponent(s, name) # 0
    THEN [s |-> LogOd(s, OdEv("component", name, s.od.parentComponentInfo,
                              existingNamedComponent(s, name), FALSE)),
          c |-> existingNamedComponent(s, name)]
    ELSE NewComponent(s, name, body, s.od.nextComponentID,
                      s.od.parentComponentInfo, s.nextID)

\* The component is registered with its parent, if any.
RegisterComponent(s, name, cmptID, pci) ==
    IF pci = 0
    THEN s
    ELSE IF name = ""
    THEN [s EXCEPT !.od.cmpts[pci].anonymousSubcomponents = Append(@, cmptID)]
    ELSE [s EXCEPT !.od.cmpts[pci].namedSubcomponents[name] = cmptID]

\* Od.component from the new cmptInfo to Obs.fn; obs is the observable
\* Obs.fn will return.
NewComponent(s, name, body, cmptID, pci, obs) ==
    ComponentDom(
        ObsFn(RegisterComponent(
                  [s EXCEPT !.od.nextComponentID = @ + 1,
                            !.od.cmpts = Append(@, [NoCmpt EXCEPT !.body = body])],
                  name, cmptID, pci),
              [k |-> "cmpt", a |-> cmptID, b |-> 0]),
        name, cmptID, pci, obs)

\* var dom = patchFromVdom(Obs.peek(obs), null, null); when fn threw the
\* observable holds undefined, which patchText cannot turn into a string:
\* the TypeError ends Od.component, and the caller gets no component (c is 0).
ComponentDom(s, name, cmptID, pci, obs) ==
    IF s.value[obs] \notin VdomVals
    THEN [s |-> LogOd(s, OdEv("failed", name, pci, cmptID, FALSE)), c |-> 0]
    ELSE ComponentSubs(patchFromVdom(peek(s, obs), s.od.cmpts[cmptID].vdom, 0, 0),
                       name, cmptID, pci, obs)

\* setDomComponentID(dom, cmptID) and Obs.subscribe([obs], ...)
ComponentSubs(r, name, cmptID, pci, obs) ==
    ComponentSubscribe(
        runPendingOdEventCallbacks(setDomComponentID(r.s, r.dom, cmptID)),
        r.dom, name, cmptID, pci, obs)

\* var subs = Obs.subscribe([obs], ...)
ComponentSubscribe(s, dom, name, cmptID, pci, obs) ==
    ComponentFill(ObsSubscribe(s, {obs}, [k |-> "cmptUpdate", a |-> cmptID, b |-> 0]),
                  dom, s.nextID, name, cmptID, pci, obs)

\* cmptInfo is filled in and cmpt.key = dom.key
ComponentFill(s, dom, subs, name, cmptID, pci, obs) ==
    [s |-> LogOd([s EXCEPT !.od.cmpts[cmptID].dom = dom,
                           !.od.cmpts[cmptID].obs = obs,
                           !.od.cmpts[cmptID].subs = subs,
                           !.od.cmpts[cmptID].key = s.od.nodes[dom].key],
                 OdEv("component", name, pci, cmptID, TRUE)),
     c |-> cmptID]

\* The end of updateComponent, with newDom (r.dom) patched
UpdateDone(r, c, oldParentComponentInfo) ==
    [s |-> LogOd([setDomComponentID(r.s, r.dom, c) EXCEPT
                     !.od.cmpts[c].dom = r.dom,
                     !.od.cmpts[c].updateIsPending = FALSE,
                     !.od.parentComponentInfo = oldParentComponentInfo],
                 OdEv("update", "", 0, c, r.dom # r.s.od.cmpts[c].dom)),
     threw |-> FALSE]

\* updateComponent after obs() is read: obs() of a disposed component is
\* null, which patchText cannot turn into a string (a TypeError; threw tells).
UpdatePatch(s, c, dom, obs, oldParentComponentInfo) ==
    IF s.value[obs] \notin VdomVals
    THEN [s |-> s, threw |-> TRUE]
    ELSE UpdateDone(patchFromVdom(s, s.od.cmpts[c].vdom, dom,
                                  IF dom = 0 THEN 0 ELSE s.od.nodes[dom].parent),
                    c, oldParentComponentInfo)

\* updateComponent
updateComponent(s, c) ==
    UpdatePatch(readObs(clearDomComponentID([s EXCEPT !.od.parentComponentInfo = c],
                                            s.od.cmpts[c].dom),
                        s.od.cmpts[c].obs),
                c, s.od.cmpts[c].dom, s.od.cmpts[c].obs, s.od.parentComponentInfo)

\* The end of deferComponentUpdate: raf(updateDeferredComponents) unless
\* deferredComponentUpdatesID tells a frame is requested.  The handle is 1;
\* rafCallbacks counts the callbacks the browser has yet to run.
RequestFrame(s) ==
    IF s.od.deferredComponentUpdatesID # 0
    THEN s
    ELSE [s EXCEPT !.od.deferredComponentUpdatesID = 1, !.od.rafCallbacks = @ + 1]

\* deferComponentUpdate without the test of updateIsPending.
deferComponentUpdate_Always(s, c) ==
    RequestFrame([s EXCEPT !.od.cmpts[c].updateIsPending = TRUE,
                           !.od.componentInfosPendingUpdate = Append(@, c)])

\* deferComponentUpdate
deferComponentUpdate(s, c) ==
    IF s.od.cmpts[c].updateIsPending
    THEN s
    ELSE RequestFrame([s EXCEPT !.od.cmpts[c].updateIsPending = TRUE,
                                !.od.componentInfosPendingUpdate = Append(@, c)])

\* updateDeferredComponents: an exception of updateComponent ends it.
RECURSIVE updateDeferredComponents(_)
RECURSIVE UpdateNext(_)
updateDeferredComponents(s) ==
    LET cmptInfos == s.od.componentInfosPendingUpdate
    IN  IF cmptInfos = <<>>
        THEN [runPendingOdEventCallbacks(s) EXCEPT
                 !.od.deferredComponentUpdatesID = 0]
        ELSE UpdateNext(updateComponent(
                 [s EXCEPT !.od.componentInfosPendingUpdate =
                               SubSeq(cmptInfos, 1, Len(cmptInfos) - 1)],
                 cmptInfos[Len(cmptInfos)]))

UpdateNext(r) == IF r.threw THEN r.s ELSE updateDeferredComponents(r.s)

\* An exception of updateComponent in the action of a subscription is caught
\* by tryReevaluateObsFn, which reports it; runPendingOdEventCallbacks
\* follows an updateComponent that returned.
UpdateOrReport(r, subs) ==
    IF r.threw THEN exceptionReporter(r.s, subs) ELSE runPendingOdEventCallbacks(r.s)

\* The action of a component's subscription, were updates always deferred.
cmptSubsAction_Defer(s, c) == deferComponentUpdate(s, c)

\* The action of a component's subscription
cmptSubsAction(s, c) ==
    IF s.od.deferComponentUpdates
    THEN deferComponentUpdate(s, c)
    ELSE UpdateOrReport(updateComponent(s, c), s.od.cmpts[c].subs)

\* Od.bind: the new state and the node returned.
OdBind(s, v, dom) ==
    patchFromVdom(s, v, dom, IF dom = 0 THEN 0 ELSE s.od.nodes[dom].parent)

\* stripNode: the props Od gave the node become null, and so for the nodes
\* below it; what a component owns is left alone.
RECURSIVE stripNode(_, _)
RECURSIVE StripAll(_, _)
RECURSIVE StripBelow(_, _)
RECURSIVE Removed(_, _)

\* A call of an onodevent handler: the call is counted for the node, and the
\* handler "write" writes 1 to the observable HookCell.
Counted(s, what, dom) ==
    CASE what = "created" -> [s EXCEPT !.od.nodes[dom].odevents.created = @ + 1]
      [] what = "updated" -> [s EXCEPT !.od.nodes[dom].odevents.updated = @ + 1]
      [] what = "removed" -> [s EXCEPT !.od.nodes[dom].odevents.removed = @ + 1]

\* lifecycleFn(what, dom) for the handler h
lifecycleFn(s, h, what, dom) ==
    IF h = "write"
    THEN writeObs(Counted(s, what, dom), HookCell, 1)
    ELSE Counted(s, what, dom)

\* for (var prop in props) dom[prop] = null
StripProps(s, dom) ==
    [s EXCEPT !.od.nodes[dom].key = "", !.od.nodes[dom].keyed = FALSE,
              !.od.nodes[dom].onodevent = ""]

stripNode(s, dom) ==
    IF isComponentDom(s, dom)
    THEN s
    ELSE StripBelow(StripProps(Removed(LogOd(s, StripEv(dom)), dom), dom), dom)

\* lifecycleFn("removed", dom) for the handler of the props Od gave the node
Removed(s, dom) ==
    IF s.od.nodes[dom].odProps # ""
    THEN lifecycleFn(s, s.od.nodes[dom].odProps, "removed", dom)
    ELSE s

\* the children the node has then are stripped
StripBelow(s, dom) == StripAll(s, s.od.nodes[dom].children)

StripAll(s, q) == IF q = <<>> THEN s ELSE StripAll(stripNode(s, Head(q)), Tail(q))

\* stripNodes
RECURSIVE stripNodes(_)
stripNodes(s) ==
    LET nodes == s.od.nodesPendingStripping
    IN  IF nodes = <<>>
        THEN [s EXCEPT !.od.stripNodesID = 0]
        ELSE stripNodes(stripNode([s EXCEPT !.od.nodesPendingStripping =
                                                SubSeq(nodes, 1, Len(nodes) - 1)],
                                  nodes[Len(nodes)]))

\* ---------------------------------------------------------------- actions
Created == 1..(nextID - 1)
Readable == {c \in Created : kind[c] \in {"of", "fn"}}
Mutable == {c \in Created : kind[c] = "of"}

\* The history is kept per call; written is kept per outermost update region.
Begin == [State EXCEPT !.evals = <<>>]
WrittenBase == IF updateDepth = 0 THEN {} ELSE written

Init ==
    /\ nextID = 1
    /\ kind = [c \in Ids |-> "none"]
    /\ eq = [c \in Ids |-> "defaultEq"]
    /\ prog = [c \in Ids |-> NoBody]
    /\ value = [c \in Ids |-> Undefined]
    /\ level = [c \in Ids |-> 0]
    /\ dependencies = [c \in Ids |-> {}]
    /\ dependents = [c \in Ids |-> {}]
    /\ hasDependents = [c \in Ids |-> FALSE]
    /\ subscriptions = [c \in Ids |-> {}]
    /\ isInUpdateQueue = [c \in Ids |-> FALSE]
    /\ updateQ = <<>>
    /\ updateDepth = 0
    /\ currentDependencies = 0
    /\ disposed = {}
    /\ disposedQueued = {}
    /\ failed = {}
    /\ written = {}
    /\ evals = <<>>
    /\ phase = "setup"
    /\ od = OdInit(TRUE)

\* var x = Obs.of(0)
Of ==
    /\ phase = "setup"
    /\ nextID <= MaxCells
    /\ Commit(ObsOf(Begin, 0, "defaultEq"))
    /\ written' = WrittenBase
    /\ phase' = phase

\* var u = Obs.fn(f)
Fn ==
    \E f \in FnBodies(Readable) :
        /\ phase = "setup"
        /\ nextID <= MaxCells
        /\ Commit(ObsFn(Begin, f))
        /\ written' = WrittenBase
        /\ phase' = phase

\* var w = Obs.subscribe(obss, action)
Subscribe ==
    \E obss \in SUBSET Readable, action \in SubBodies(Mutable) :
        /\ phase = "setup"
        /\ nextID <= MaxCells
        /\ Cardinality(obss) \in 1..2
        /\ Commit(ObsSubscribe(Begin, obss, action))
        /\ written' = WrittenBase
        /\ phase' = phase

\* x(v)
Write ==
    \E c \in Mutable, v \in Vals :
        /\ Commit(writeObs(Begin, c, v))
        /\ written' = IF v # value[c] /\ updateDepth > 0
                      THEN written \cup {c}
                      ELSE WrittenBase
        /\ phase' = "run"

\* Obs.dispose(obs)
Dispose ==
    \E c \in Created :
        /\ Cardinality(disposed) < MaxDisposals
        /\ Commit(dispose(Begin, c))
        /\ written' = WrittenBase
        /\ phase' = "run"

\* Obs.startUpdate()
StartUpdate ==
    /\ updateDepth < MaxDepth
    /\ Commit(startUpdate(Begin))
    /\ written' = WrittenBase
    /\ phase' = "run"

\* Obs.endUpdate()
EndUpdate ==
    /\ Commit(endUpdate(Begin))
    /\ written' = WrittenBase
    /\ phase' = "run"

Next == Of \/ Fn \/ Subscribe \/ Write \/ Dispose \/ StartUpdate \/ EndUpdate

Spec == Init /\ [][Next]_vars

\* The state before any call, with the observables D to come.
InitCells(D) ==
    /\ nextID = 1
    /\ kind = [c \in D |-> "none"]
    /\ eq = [c \in D |-> "defaultEq"]
    /\ prog = [c \in D |-> NoBody]
    /\ value = [c \in D |-> Undefined]
    /\ level = [c \in D |-> 0]
    /\ dependencies = [c \in D |-> {}]
    /\ dependents = [c \in D |-> {}]
    /\ hasDependents = [c \in D |-> FALSE]
    /\ subscriptions = [c \in D |-> {}]
    /\ isInUpdateQueue = [c \in D |-> FALSE]
    /\ updateQ = <<>>
    /\ updateDepth = 0
    /\ currentDependencies = 0
    /\ disposed = {}
    /\ disposedQueued = {}
    /\ failed = {}
    /\ written = {}
    /\ evals = <<>>
    /\ phase = "setup"

\* ------------------------------------- functions that write, actions that read
\* The application creates mutable observables, subscriptions whose actions
\* read an observable, and computed observables whose functions write one
\* observable before they read another, or throw; then it writes.
TrackCells == 5
TrackIds == 1..TrackCells

InitTrack == InitCells(TrackIds) /\ od = OdInit(TRUE)

\* var x = Obs.of(0)
OfTrack ==
    /\ phase = "setup"
    /\ nextID <= TrackCells
    /\ Cardinality(Mutable) < 3
    /\ Commit(ObsOf(Begin, 0, "defaultEq"))
    /\ written' = WrittenBase
    /\ phase' = phase

\* var w = Obs.subscribe([x], action)
SubscribeTrack ==
    \E x \in Mutable, action \in ReadBodies(Readable) \cup {[NoBody EXCEPT !.k = "noop"]} :
        /\ phase = "setup"
        /\ nextID <= TrackCells
        /\ Commit(ObsSubscribe(Begin, {x}, action))
        /\ written' = WrittenBase
        /\ phase' = phase

\* var u = Obs.fn(f)
FnTrack ==
    \E f \in SetBodies(Mutable, Readable)
              \cup {g \in FnBodies(Readable) : g.k \in {"id", "guard"}} :
        /\ phase = "setup"
        /\ nextID <= TrackCells
        /\ Commit(ObsFn(Begin, f))
        /\ written' = WrittenBase
        /\ phase' = phase

\* x(v)
WriteTrack ==
    \E c \in Mutable, v \in Vals :
        /\ Commit(writeObs(Begin, c, v))
        /\ written' = WrittenBase
        /\ phase' = "run"

NextTrack == OfTrack \/ SubscribeTrack \/ FnTrack \/ WriteTrack

SpecTrack == InitTrack /\ [][NextTrack]_vars

\* ------------------------------------------------- the update queue alone
\* enqueueUpdate and dequeueUpdate are called in any order on observables
\* whose levels are drawn at the start and stay as they are.
HeapCells == 5
HeapLevel == 3
HeapIds == 1..HeapCells

InitHeap ==
    /\ nextID = HeapCells + 1
    /\ kind = [c \in HeapIds |-> "fn"]
    /\ eq = [c \in HeapIds |-> "defaultEq"]
    /\ prog = [c \in HeapIds |-> NoBody]
    /\ value = [c \in HeapIds |-> Undefined]
    /\ level \in [HeapIds -> 0..HeapLevel]
    /\ dependencies = [c \in HeapIds |-> {}]
    /\ dependents = [c \in HeapIds |-> {}]
    /\ hasDependents = [c \in HeapIds |-> FALSE]
    /\ subscriptions = [c \in HeapIds |-> {}]
    /\ isInUpdateQueue = [c \in HeapIds |-> FALSE]
    /\ updateQ = <<>>
    /\ updateDepth = 0
    /\ currentDependencies = 0
    /\ disposed = {}
    /\ disposedQueued = {}
    /\ failed = {}
    /\ written = {}
    /\ evals = <<>>
    /\ phase = "run"
    /\ od = OdInit(TRUE)

\* enqueueUpdate(obs)
EnqueueHeap ==
    \E c \in HeapIds :
        /\ Commit(Log(enqueueUpdate(Begin, c), Ev("enqueue", c, FALSE, FALSE)))
        /\ UNCHANGED <<written, phase>>

\* What dequeueUpdate returned (0 is undefined), for the history.
Dequeued(d) == Log(d.s, Ev("dequeue", d.obs, FALSE, FALSE))

\* dequeueUpdate()
DequeueHeap ==
    /\ Commit(Dequeued(dequeueUpdate(Begin)))
    /\ UNCHANGED <<written, phase>>

NextHeap == EnqueueHeap \/ DequeueHeap

SpecHeap == InitHeap /\ [][NextHeap]_vars

\* ------------------------------------- equality tests, peeking, c(v) on any c
\* The values the application stores: numbers and the two boxes.
ApiVals == Vals \cup Boxes

\* The history entry of the call c(v).
LogCall(s, c, v) ==
    [s EXCEPT !.evals = Append(@, [k |-> "call", c |-> c, stale |-> FALSE,
                                   threw |-> FALSE, dead |-> c \in s.disposed,
                                   v |-> v])]

\* var x = Obs.of(x0, eq)
OfEq ==
    \E x \in {0, Box1}, e \in EqNames :
        /\ phase = "setup"
        /\ nextID <= ApiCells
        /\ Commit(ObsOf(Begin, x, e))
        /\ written' = WrittenBase
        /\ phase' = phase

\* var u = Obs.fn(f)
FnApi ==
    \E f \in ApiBodies(Readable) :
        /\ phase = "setup"
        /\ nextID <= ApiCells
        /\ Commit(ObsFn(Begin, f))
        /\ written' = WrittenBase
        /\ phase' = phase

\* var w = Obs.subscribe([c], function () { })
SubscribeApi ==
    \E c \in Readable :
        /\ phase = "setup"
        /\ nextID <= ApiCells
        /\ Commit(ObsSubscribe(Begin, {c}, [k |-> "noop", a |-> 0, b |-> 0]))
        /\ written' = WrittenBase
        /\ phase' = phase

\* c(v) on a mutable or a computed observable
Call ==
    \E c \in Readable, v \in ApiVals :
        /\ Commit(writeObs(LogCall(Begin, c, v), c, v))
        /\ written' = IF kind[c] = "of" /\ v # value[c] /\ updateDepth > 0
                      THEN written \cup {c}
                      ELSE WrittenBase
        /\ phase' = "run"

NextApi == OfEq \/ FnApi \/ SubscribeApi \/ Call \/ StartUpdate \/ EndUpdate

SpecApi == Init /\ [][NextApi]_vars

\* ------------------------------------------------- Od: patching a document
\* The script creates components at the top level, binds vDOMs to nodes of
\* the document or to none, and the browser runs the timer of stripNodes.
InitPatch == InitCells(OdIds) /\ od = OdInit(TRUE)

OdBegin == [Begin EXCEPT !.od.calls = <<>>]

\* The components and the nodes there are.
Cmpts == 1..(od.nextComponentID - 1)
Nodes == 1..(od.nextNode - 1)

\* The children a vDOM of a bind may have, and the vDOMs bound.
ChildVdoms(C) ==
    {VText("a"), VElt("P", "x", FALSE, <<>>), VElt("DIV", "x", FALSE, <<>>),
     VElt("DIV", "y", FALSE, <<>>), VElt("DIV", "", FALSE, <<VText("b")>>)}
    \cup {VCmpt(c) : c \in C}
ChildLists(C) == UNION {[1..n -> ChildVdoms(C)] : n \in 0..MaxChildren}
Vdoms(C) ==
    {VText("a"), VText("b"), VElt("P", "", FALSE, <<>>)}
    \cup {VCmpt(c) : c \in C}
    \cup {VElt("DIV", "", keyed, q) : keyed \in BOOLEAN, q \in ChildLists(C)}

\* The nodes one bind creates at most: the element, per child a placeholder
\* of the reordering and a node with a text in it.
BindNodes == 1 + 3 * MaxChildren

\* A call of Od.bind, for the history; the nodes from fresh on are those the
\* call created.
BindEv(v, dom, parent, newDom, fresh) ==
    [op |-> "bind", v |-> v, dom |-> dom, parent |-> parent, newDom |-> newDom,
     fresh |-> fresh]

\* The state after a call of Od.bind that returned r.dom, the call recorded.
Bound1(r, v, dom, parent, fresh) ==
    LogOd([r.s EXCEPT !.od.binds = @ + 1], BindEv(v, dom, parent, r.dom, fresh))

\* var c = Od.component(null, function () { return Od.element("DIV", {key}); })
Component ==
    /\ od.nextComponentID <= PatchCmpts
    /\ od.nextNode <= MaxNodes
    /\ nextID + 1 <= OdCells
    /\ \E key \in {"", "x"} :
        /\ Commit(OdComponent(OdBegin, "", LeafBody(0, key)).s)
        /\ written' = WrittenBase
        /\ phase' = phase

\* Od.bind(v, dom)
Bind ==
    /\ od.binds < MaxBinds
    /\ od.nextNode + BindNodes <= MaxNodes + 1
    /\ \E v \in Vdoms(Cmpts), dom \in {0} \cup Nodes :
        /\ Commit(Bound1(OdBind(OdBegin, v, dom), v, dom,
                          IF dom = 0 THEN 0 ELSE od.nodes[dom].parent, od.nextNode))
        /\ written' = WrittenBase
        /\ phase' = "run"

\* The timer of enqueueNodeForStripping fires.
StripNodes ==
    /\ od.stripNodesID # 0
    /\ Commit(stripNodes(OdBegin))
    /\ written' = WrittenBase
    /\ phase' = "run"

NextPatch == Component \/ Bind \/ StripNodes

SpecPatch == InitPatch /\ [][NextPatch]_vars

\* ------------------------------------------------ Od: components that update
\* The script makes an observable x, says whether component updates are
\* deferred, creates components at the top level whose bodies read x, and
\* writes x; the browser runs the animation frame and the timer.
InitCmpt == InitCells(OdIds) /\ od = OdInit(TRUE)

\* var x = Obs.of(0)
OfOd ==
    /\ nextID = 1
    /\ Commit(ObsOf(OdBegin, 0, "defaultEq"))
    /\ written' = WrittenBase
    /\ phase' = phase

\* Od.deferComponentUpdates = false
SetEager ==
    /\ phase = "setup"
    /\ od.deferComponentUpdates
    /\ Commit([OdBegin EXCEPT !.od.deferComponentUpdates = FALSE])
    /\ written' = WrittenBase
    /\ phase' = phase

\* The components a body creates when it runs, itself included when it is
\* created.
BodyCmpts(body) == IF body.k = "parent" THEN 3 ELSE 1

\* var c = Od.component(null, fn)
ComponentOd ==
    \E body \in {ParentBody(x) : x \in Mutable} \cup {LeafBody(x, "") : x \in Mutable} :
        /\ od.nextComponentID + BodyCmpts(body) <= MaxCmpts + 1
        /\ nextID + 2 * BodyCmpts(body) <= OdCells + 1
        /\ od.nextNode + BodyCmpts(body) <= MaxNodes + 1
        /\ Commit(OdComponent(OdBegin, "", body).s)
        /\ written' = WrittenBase
        /\ phase' = "run"

\* x(v); each component there is may create one when its body runs again.
WriteOd ==
    \E c \in Mutable, v \in Vals :
        /\ 2 * od.nextComponentID - 1 <= MaxCmpts + 1
        /\ nextID + 2 * (od.nextComponentID - 1) <= OdCells + 1
        /\ od.nextNode + 2 * (od.nextComponentID - 1) <= MaxNodes + 1
        /\ Commit(writeObs(OdBegin, c, v))
        /\ written' = WrittenBase
        /\ phase' = "run"

\* The animation frame of deferComponentUpdate comes.
Raf ==
    /\ od.rafCallbacks > 0
    /\ od.nextNode + 2 * (od.nextComponentID - 1) <= MaxNodes + 1
    /\ Commit(updateDeferredComponents([OdBegin EXCEPT !.od.rafCallbacks = @ - 1]))
    /\ written' = WrittenBase
    /\ phase' = "run"

NextCmpt == OfOd \/ SetEager \/ ComponentOd \/ WriteOd \/ Raf \/ StripNodes

SpecCmpt == InitCmpt /\ [][NextCmpt]_vars

\* ------------------------------------- Od: components updated and disposed
\* As above, with components whose text follows x and with Od.dispose.
LifeCmpts == 5
LifeNodes == 12
LifeScripts == 2

\* var c = Od.component(null, fn)
ComponentLife ==
    \E body \in {FamilyBody(x) : x \in Mutable} \cup {DivBody(x) : x \in Mutable} :
        /\ Cardinality({c \in Cmpts : od.cmpts[c].body.k # "leaf"}) < LifeScripts
        /\ od.nextComponentID + BodyCmpts(body) <= LifeCmpts + 1
        /\ od.nextNode + 2 * BodyCmpts(body) <= LifeNodes + 1
        /\ Commit(OdComponent(OdBegin, "", body).s)
        /\ written' = WrittenBase
        /\ phase' = "run"

\* The components the script holds: those no function of a component made.
ScriptCmpts == {c \in Cmpts : od.cmpts[c].body.k # "leaf"}

\* The components not disposed of: their functions run again when x is
\* written, and those of parents make a component then.
LiveCmpts == {c \in Cmpts : od.cmpts[c].obs \notin disposed}
Parents == {c \in LiveCmpts : od.cmpts[c].body.k = "parent"}

\* x(v)
WriteLife ==
    \E c \in Mutable, v \in Vals :
        /\ od.nextComponentID + Cardinality(Parents) <= LifeCmpts + 1
        /\ od.nextNode + 2 * Cardinality(LiveCmpts) <= LifeNodes + 1
        /\ Commit(writeObs(LogOd(OdBegin, OdEv("write", "", 0, 0, FALSE)), c, v))
        /\ written' = WrittenBase
        /\ phase' = "run"

\* The animation frame of deferComponentUpdate comes.
RafLife ==
    /\ od.rafCallbacks > 0
    /\ od.nextComponentID + Cardinality(Parents) <= LifeCmpts + 1
    /\ od.nextNode + 2 * Cardinality(LiveCmpts) <= LifeNodes + 1
    /\ Commit(updateDeferredComponents(
                  LogOd([OdBegin EXCEPT !.od.rafCallbacks = @ - 1],
                        OdEv("raf", "", 0, 0, FALSE))))
    /\ written' = WrittenBase
    /\ phase' = "run"

\* Od.dispose(c) for a component c the script holds
DisposeOd ==
    \E c \in ScriptCmpts \cap LiveCmpts :
        /\ Commit(OdDispose(LogOd(OdBegin, OdEv("Od.dispose", "", 0, c, FALSE)), c))
        /\ written' = WrittenBase
        /\ phase' = "run"

NextLife ==
    OfOd \/ SetEager \/ ComponentLife \/ WriteLife \/ RafLife \/ DisposeOd \/ StripNodes

SpecLife == InitCmpt /\ [][NextLife]_vars

\* ------------------------------------------- Od: components with onodevent
\* The script makes two observables x and y, says whether component updates
\* are deferred, creates components that read x, whose elements have an
\* onodevent handler, and components that read y, and writes x and y; the
\* handler "write" writes y.
HookCmpts == 2
HookNodes == 5
\* The "updated" calls a node gets before the script stops writing.
HookUpdates == 2

\* No node has had HookUpdates "updated" calls.
FewUpdates == \A n \in Nodes : od.nodes[n].odevents.updated < HookUpdates

\* The state after d = Od.bind(v, dom) returned r.dom.
Held(r, v, dom, fresh) == [Bound1(r, v, dom, 0, fresh) EXCEPT !.od.bound = r.dom]

\* var x = Obs.of(0); var y = Obs.of(0)
OfHook ==
    /\ nextID <= HookCell
    /\ Commit(ObsOf(OdBegin, 0, "defaultEq"))
    /\ written' = WrittenBase
    /\ phase' = phase

\* var a = Od.component(null, fn) for a function with an onodevent handler
\* that reads x, and then var b = Od.component(null, fn) for functions that
\* read y, with a handler that writes nothing or with none
ComponentHook ==
    \E body \in IF od.nextComponentID = 1
                 THEN {HookBody(1, h) : h \in Hooks} \cup {HookDivBody(1, h) : h \in Hooks}
                 ELSE {DivBody(HookCell), HookBody(HookCell, "log")} :
        /\ nextID > HookCell
        /\ od.nextComponentID <= HookCmpts
        /\ od.nextNode <= HookNodes
        /\ Commit(OdComponent(OdBegin, "", body).s)
        /\ written' = WrittenBase
        /\ phase' = "run"

\* x(v) or y(v)
WriteHook ==
    \E c \in Mutable, v \in Vals :
        /\ nextID > HookCell
        /\ FewUpdates
        /\ od.nextNode + od.nextComponentID - 1 <= HookNodes + 1
        /\ Commit(writeObs(LogOd(OdBegin, OdEv("write", "", 0, 0, FALSE)), c, v))
        /\ written' = WrittenBase
        /\ phase' = "run"

\* The animation frame of deferComponentUpdate comes.
RafHook ==
    /\ od.rafCallbacks > 0
    /\ FewUpdates
    /\ od.nextNode + od.nextComponentID - 1 <= HookNodes + 1
    /\ Commit(updateDeferredComponents(
                  LogOd([OdBegin EXCEPT !.od.rafCallbacks = @ - 1],
                        OdEv("raf", "", 0, 0, FALSE))))
    /\ written' = WrittenBase
    /\ phase' = "run"

\* The binds of the script.
HookBinds == 2

\* d = Od.bind(Od.element(tag, {onodevent: bound}), d), after a is made, for
\* a handler bound that no component uses; d is null at first.
BindHook ==
    /\ od.binds < HookBinds
    /\ od.nextComponentID > 1
    /\ od.nextNode <= HookNodes
    /\ \E tag \in {"DIV", "P"} :
        /\ Commit(Held(OdBind(OdBegin, VHook(tag, "bound"), od.bound),
                       VHook(tag, "bound"), od.bound, od.nextNode))
        /\ written' = WrittenBase
        /\ phase' = "run"

NextHook ==
    OfHook \/ SetEager \/ ComponentHook \/ WriteHook \/ RafHook \/ StripNodes \/ BindHook

SpecHook == InitCmpt /\ [][NextHook]_vars

\* ------------------------- Od: components whose value is a component or a node
\* With immediate updates, the script makes an observable x and components
\* b that read nothing, then a component a whose function returns b, or a
\* node made outside Od and given to Od.fromDom, or an element, as x tells;
\* it binds elements whose children are two of the components, and writes x.
RootLeaves == 2
RootWraps == 1
RootNodes == 8
RootBinds == 2

InitRoot == InitCells(OdIds) /\ od = OdInit(FALSE)

\* The components whose function returns an element, and the others.
Leaves == {c \in Cmpts : od.cmpts[c].body.k = "leaf"}
Wraps == Cmpts \ Leaves

\* var b = Od.component(null, () => Od.element("DIV", {key: "x"}))
LeafRoot ==
    /\ nextID > 1
    /\ Cardinality(Leaves) < RootLeaves
    /\ od.nextNode <= RootNodes
    /\ Commit(OdComponent(OdBegin, "", LeafBody(0, "x")).s)
    /\ written' = WrittenBase
    /\ phase' = "run"

\* var n = document.createElement("DIV");
\* n.appendChild(document.createTextNode("t")): the new state and n.
MadeDom(r, t) == [s |-> appendChild(t.s, r.dom, t.dom), dom |-> r.dom]
MakeText(r) == MadeDom(r, createTextNode(r.s, "t"))
MakeDom(s) ==
    MakeText([createElement(s, "DIV") EXCEPT !.s.od.nodes[s.od.nextNode].opaque = TRUE])

\* var w = Od.fromDom(n); var a = Od.component(null, () => x() ? elt : w)
ComponentOfDom(r) == OdComponent(OdFromDom(r.s, r.dom).s, "", DomBody(1, r.dom)).s

\* var a = Od.component(null, fn) for a function that returns b or the node
\* given to Od.fromDom when x is falsy
WrapRoot ==
    /\ nextID > 1
    /\ Cardinality(Wraps) < RootWraps
    /\ od.nextNode + 3 <= RootNodes + 1
    /\ \/ \E b \in Leaves :
              Commit(OdComponent(OdBegin, "", RootBody(1, b)).s)
       \/ Commit(ComponentOfDom(MakeDom(OdBegin)))
    /\ written' = WrittenBase
    /\ phase' = "run"

\* A call of Od.bind for the history, with the vDOM bound before.
RebindEv(v, was, dom, newDom, fresh) ==
    [op |-> "bind", v |-> v, was |-> was, dom |-> dom, parent |-> 0,
     newDom |-> newDom, fresh |-> fresh]

\* The state after d = Od.bind(v, d) returned r.dom.
HeldAs(r, v, was, dom, fresh) ==
    LogOd([r.s EXCEPT !.od.binds = @ + 1, !.od.bound = r.dom, !.od.boundVdom = v],
          RebindEv(v, was, dom, r.dom, fresh))

\* d = Od.bind(Od.element("DIV", null, [c1, c2]), d); d is null at first.
BindRoot ==
    /\ od.binds < RootBinds
    /\ od.nextNode <= RootNodes
    /\ \E c1 \in Cmpts : \E c2 \in Cmpts \ {c1} :
        /\ Commit(HeldAs(OdBind(OdBegin, VElt("DIV", "", FALSE, <<VCmpt(c1), VCmpt(c2)>>),
                                od.bound),
                         VElt("DIV", "", FALSE, <<VCmpt(c1), VCmpt(c2)>>),
                         od.boundVdom, od.bound, od.nextNode))
        /\ written' = WrittenBase
        /\ phase' = "run"

\* x(v)
WriteRoot ==
    \E v \in Vals :
        /\ nextID > 1
        /\ od.nextNode + Cardinality(Wraps) <= RootNodes + 1
        /\ Commit(writeObs(LogOd(OdBegin, OdEv("write", "", 0, 0, FALSE)), 1, v))
        /\ written' = WrittenBase
        /\ phase' = "run"

NextRoot == OfOd \/ LeafRoot \/ WrapRoot \/ BindRoot \/ WriteRoot \/ StripNodes

SpecRoot == InitRoot /\ [][NextRoot]_vars

TypeOK ==
    /\ nextID \in 1..(MaxCells + 1)
    /\ updateDepth \in 0..MaxDepth
    /\ currentDependencies = 0

\* ------------------------------------------------------------ properties
Live(c) == c \in Created /\ c \notin disposed

IsFn(c, k, a, b) == kind[c] = "fn" /\ prog[c] = [k |-> k, a |-> a, b |-> b]

\* The computed observables and subscriptions the last call ran, in order.
Ran(log) == SelectSeq(log, LAMBDA e : e.k \in {"eval", "action"})

\* How often the last call ran c.
Runs(log, c) == Len(SelectSeq(log, LAMBDA e : e.k \in {"eval", "action"} /\ e.c = c))

\* Whether an action wrote an observable during the last call.
ActionWrote(log) == \E i \in 1..Len(log) : log[i].k = "write"

\* X mutable, U = f(X), V = g(X, U).
Diamond(X, U, V) ==
    /\ kind[X] = "of"
    /\ IsFn(U, "id", X, X)
    /\ IsFn(V, "sum", X, U)
    /\ Live(X) /\ Live(U) /\ Live(V)

\* C1 (diamond dependency): when one write outside any update region changes
\* X, with U = f(X) and V = g(X, U), and no subscription action writes during
\* the flush, the flush runs U's function exactly once and V's exactly once, U
\* before V, V reads no observable that is still queued, and V holds g of the
\* new X and the new U.
C1_Diamond ==
    [][(/\ updateDepth = 0 /\ updateDepth' = 0 /\ phase' = "run"
        /\ disposed' = disposed /\ ~ActionWrote(evals'))
       => \A X \in Ids, U \in Ids, V \in Ids :
             (Diamond(X, U, V) /\ value'[X] # value[X])
             => LET uv == SelectSeq(evals', LAMBDA e : e.k = "eval" /\ e.c \in {U, V})
                IN  /\ Len(uv) = 2
                    /\ uv[1].c = U
                    /\ uv[2].c = V
                    /\ ~uv[2].stale
                    /\ value'[U] = value'[X]
                    /\ value'[V] = (value'[X] + value'[U]) % 2]_vars

\* A diamond after a write that changed X to 1: U and V have just been run
\* (written is empty, so the call was no endUpdate closing a region).
C1_Witness ==
    \E X \in Ids, U \in Ids, V \in Ids :
        /\ Diamond(X, U, V)
        /\ phase = "run"
        /\ updateDepth = 0
        /\ written = {}
        /\ value[X] = 1
        /\ Runs(evals, U) = 1
        /\ Runs(evals, V) = 1

\* No computed observable was run twice by the last call, and none was run
\* while an observable it read was still in the update queue.
OnceAndSettled ==
    /\ \A i \in 1..Len(evals) : evals[i].k = "eval" => ~evals[i].stale
    /\ \A c \in Ids : kind[c] = "fn" => Runs(evals, c) <= 1

\* Every computed observable reads the same observables at every evaluation.
StaticGraph == \A c \in Created : kind[c] = "fn" => prog[c].k \in {"id", "sum"}

\* C2 as claimed (single evaluation, no glitch): whatever the dependency
\* graph, also when a computed observable's dependencies change from one
\* evaluation to the next, a flush (during which no subscription action
\* writes) runs no computed observable twice and none while an observable it
\* reads is still queued.
C2_GlitchFree == ~ActionWrote(evals) => OnceAndSettled

\* C2 as amended: the same, for graphs whose computed observables read the
\* same observables at every evaluation and flushes during which no
\* subscription action writes an observable.
C2_StaticGlitchFree == (StaticGraph /\ ~ActionWrote(evals)) => OnceAndSettled

\* A flush of a static graph that ran a computed observable of level 2.
C2_Witness ==
    /\ StaticGraph
    /\ ~ActionWrote(evals)
    /\ phase = "run"
    /\ \E i \in 1..Len(evals) :
          evals[i].k = "eval" /\ level[evals[i].c] = 2 /\ Len(evals) >= 3

\* C3 (level invariant): a mutable observable has level 0 and a computed
\* observable a level above that of every observable in its dependencies.
C3_LevelInvariant ==
    \A c \in Created :
        /\ kind[c] = "of" => level[c] = 0
        /\ kind[c] = "fn" => \A d \in dependencies[c] : level[d] < level[c]

\* C4 (cancellation by disposal): an observable disposed of while it was in
\* the update queue is not run when the queue is flushed and takes no new
\* dependency links.
C4_DisposedNotRun ==
    /\ \A i \in 1..Len(evals) :
          (evals[i].k \in {"eval", "action"} /\ evals[i].c \in disposedQueued)
          => ~evals[i].dead
    /\ \A c \in disposedQueued :
          /\ dependencies[c] = {}
          /\ \A d \in Ids : c \notin dependents[d]

\* The update queue is empty and no update region is open.
Quiescent == updateQ = <<>> /\ updateDepth = 0

\* Computed observable c holds what its function yields on the current values.
Consistent(c) ==
    LET r == EvalFn(State, c)
    IN  ~r.threw /\ value[c] = r.val

\* C5 (consistency at quiescence): when the queue is empty and no region is
\* open, every computed observable that is not disposed of, whose last
\* evaluation did not throw and whose dependencies are not disposed of holds
\* the value of its function on the current values.
C5_Consistent ==
    Quiescent
    => \A c \in Created :
          (/\ kind[c] = "fn"
           /\ c \notin disposed
           /\ c \notin failed
           /\ dependencies[c] \cap disposed = {})
          => Consistent(c)

\* A flush in which a subscription action changed a mutable observable and a
\* computed observable of level 2 was run after it.
C5_Witness ==
    /\ Quiescent
    /\ disposed = {}
    /\ \E i \in 1..Len(evals), j \in 1..Len(evals) :
          /\ i < j
          /\ evals[i].k = "write"
          /\ evals[j].k = "eval"
          /\ level[evals[j].c] = 2
          /\ evals[j].c \notin failed

\* C6 (batching coalesces): inside an update region nothing is run; when
\* endUpdate closes the region in which X and Y were both changed, U =
\* g(X, Y) is run exactly once and holds g of the new X and the new Y
\* (no subscription action writing during the flush).
C6_BatchCoalesces ==
    /\ updateDepth > 0 => evals = <<>>
    /\ (updateDepth = 0 /\ ~ActionWrote(evals))
       => \A X \in Ids, Y \in Ids, U \in Ids :
             (/\ {X, Y} \subseteq written
              /\ kind[X] = "of" /\ kind[Y] = "of"
              /\ IsFn(U, "sum", X, Y)
              /\ Live(X) /\ Live(Y) /\ Live(U))
             => /\ Runs(evals, U) = 1
                /\ value[U] = (value[X] + value[Y]) % 2

\* endUpdate has closed a region in which X became 1 and Y became 0 again.
C6_Witness ==
    \E X \in Ids, Y \in Ids, U \in Ids :
        /\ updateDepth = 0
        /\ {X, Y} \subseteq written
        /\ IsFn(U, "sum", X, Y)
        /\ Live(X) /\ Live(Y) /\ Live(U)
        /\ value[X] = 1 /\ value[Y] = 0
        /\ Runs(evals, U) = 1

\* C7 (nested update regions): a call that returns inside an update region
\* (depth above 0) has run nothing and has taken nothing out of the queue.
C7_NestedRegions ==
    [][updateDepth' > 0
       => /\ Ran(evals') = <<>>
          /\ Len(updateQ') >= Len(updateQ)
          /\ \A c \in Ids : isInUpdateQueue[c] => isInUpdateQueue'[c]]_vars

\* An observable is queued while two update regions are open.
C7_Witness == updateDepth = 2 /\ Len(updateQ) >= 1

DepSet(c) == dependencies[c] \cup subscriptions[c]

\* C9 (mutual links): D is among the dependencies of C exactly when C is
\* among the dependents of D.
C9_MutualLinks ==
    \A C \in Created, D \in Created : D \in DepSet(C) <=> C \in dependents[D]

\* C10 (error isolation): when the function of computed observable c throws
\* in the one evaluation a write outside any update region causes of it, the
\* write still completes (the queue is drained), c keeps its value, and a
\* dependent of c is run in that call only if another of its dependencies
\* changed.
C10_ErrorIsolation ==
    [][(/\ phase' = "run" /\ updateDepth = 0 /\ updateDepth' = 0
        /\ disposed' = disposed /\ ~ActionWrote(evals'))
       => \A c \in Ids :
             (/\ kind[c] = "fn"
              /\ Runs(evals', c) = 1
              /\ \E i \in 1..Len(evals') : evals'[i].c = c /\ evals'[i].threw)
             => /\ value'[c] = value[c]
                /\ updateQ' = <<>>
                /\ \A d \in dependents[c] :
                      Runs(evals', d) > 0
                      => \E x \in DepSet(d) \ {c} : value'[x] # value[x]]_vars

\* The last call, a write, ran c, whose function threw, and c has a
\* dependent d = f(c) that holds a value.
C10_Witness ==
    \E c \in Ids, d \in Ids :
        /\ phase = "run"
        /\ updateDepth = 0
        /\ written = {}
        /\ IsFn(d, "id", c, c)
        /\ Live(c) /\ Live(d)
        /\ d \in dependents[c]
        /\ value[c] \in Vals
        /\ \E i \in 1..Len(evals) : evals[i].c = c /\ evals[i].threw

\* How often the last call ran the function of c and it threw, and how often
\* it called Obs.exceptionReporter for c.
Throws(log, c) == Len(SelectSeq(log, LAMBDA e : e.k = "eval" /\ e.c = c /\ e.threw))
Reports(log, c) == Len(SelectSeq(log, LAMBDA e : e.k = "report" /\ e.c = c))

\* C11 (a failing observable does not abort the flush): when a function
\* throws during a call that returns outside every update region, the queue
\* ends empty, every observable that was queued when the call began has been
\* run, and Obs.exceptionReporter was called once for each failing
\* evaluation, directly after it.
C11_FlushSurvivesThrow ==
    [][(updateDepth' = 0 /\ \E i \in 1..Len(evals') : evals'[i].threw)
       => /\ updateQ' = <<>>
          /\ \A c \in Ids : ~isInUpdateQueue'[c]
          /\ \A c \in Ids : isInUpdateQueue[c] => Runs(evals', c) >= 1
          /\ \A c \in Ids : Reports(evals', c) = Throws(evals', c)
          /\ \A i \in 1..Len(evals') :
                evals'[i].threw
                => /\ i < Len(evals')
                   /\ evals'[i + 1].k = "report"
                   /\ evals'[i + 1].c = evals'[i].c]_vars

\* The flush of an update region ran a function that threw and, after it, the
\* function of another observable.
C11_Witness ==
    /\ updateDepth = 0
    /\ written # {}
    /\ updateQ = <<>>
    /\ \E i \in 1..Len(evals), j \in 1..Len(evals) :
          /\ i < j
          /\ evals[i].threw
          /\ evals[j].k = "eval"
          /\ evals[j].c # evals[i].c

\* The last call was c(v).
Called(log, c, v) == Len(log) >= 1 /\ log[1].k = "call" /\ log[1].c = c /\ log[1].v = v

\* Whether the last call threw to its caller.
Threw(log) == \E i \in 1..Len(log) : log[i].k = "throw"

\* C12 (writing a computed observable): c(v) on a computed observable throws
\* to the caller and leaves the values, the levels, every dependency and
\* dependent set, the update queue and the update depth as they were; called
\* during the evaluation of any observable e, it adds nothing to the
\* dependencies of e.
C12_WriteComputedThrows ==
    [][\A c \in Ids, v \in ApiVals :
          (Called(evals', c, v) /\ kind[c] = "fn")
          => /\ Threw(evals')
             /\ value' = value
             /\ level' = level
             /\ dependencies' = dependencies
             /\ dependents' = dependents
             /\ hasDependents' = hasDependents
             /\ updateQ' = updateQ
             /\ isInUpdateQueue' = isInUpdateQueue
             /\ updateDepth' = updateDepth
             /\ currentDependencies' = currentDependencies
             /\ Ran(evals') = <<>>
             /\ \A e \in Created :
                   LET s0 == [Begin EXCEPT !.currentDependencies = e]
                       t == writeObs(s0, c, v)
                   IN  Threw(t.evals) /\ [t EXCEPT !.evals = <<>>] = s0]_vars

\* The last call wrote a value other than its own to a computed observable
\* that has a dependent, inside an update region.
C12_Witness ==
    \E c \in Ids, v \in ApiVals :
        /\ Called(evals, c, v)
        /\ kind[c] = "fn"
        /\ value[c] # v
        /\ dependents[c] # {}
        /\ updateDepth = 1

\* C13 (equality suppresses propagation): c(v) on a mutable observable whose
\* eq reports v equal to the current value leaves the update queue as it was
\* and runs no function and no action.
C13_EqualWriteSchedulesNothing ==
    [][\A c \in Ids, v \in ApiVals :
          (Called(evals', c, v) /\ kind[c] = "of" /\ Eq(eq[c], value[c], v))
          => /\ updateQ' = updateQ
             /\ isInUpdateQueue' = isInUpdateQueue
             /\ Ran(evals') = <<>>]_vars

\* Outside every update region the last call wrote a box to a mutable
\* observable with valueOfEq that a computed observable depends on, and
\* nothing was run.
C13_Witness ==
    \E c \in Ids, v \in Boxes :
        /\ Called(evals, c, v)
        /\ kind[c] = "of"
        /\ eq[c] = "valueOfEq"
        /\ \E d \in dependents[c] : kind[d] = "fn"
        /\ updateDepth = 0
        /\ Len(evals) = 1

\* C14 (an equal write is a no-op): c(v) on a mutable observable whose eq
\* reports v equal to the current value leaves the stored value as it was.
C14_EqualWriteKeepsValue ==
    [][\A c \in Ids, v \in ApiVals :
          (Called(evals', c, v) /\ kind[c] = "of" /\ Eq(eq[c], value[c], v))
          => value'[c] = value[c]]_vars

\* C15 (subscriptions run last and once): in a call during which no action
\* writes an observable (and nothing has been disposed of), no subscription
\* action runs twice and no function of a computed observable runs after a
\* subscription action.
C15_SubscriptionsLast ==
    (~ActionWrote(evals) /\ disposed = {})
    => /\ \A c \in Ids : kind[c] = "sub" => Runs(evals, c) <= 1
       /\ \A i \in 1..Len(evals), j \in 1..Len(evals) :
             (i < j /\ evals[i].k = "action") => evals[j].k # "eval"

\* C16 (peek registers nothing): with a and b mutable and u = function () {
\* a(); return Obs.peek(b); }, u is linked to a and not to b; a write to b
\* outside any update region does not run u, which keeps its value; a write
\* that changes a runs u once, and u then holds the current value of b.
C16_PeekRegistersNothing ==
    [][(Len(evals') >= 1 /\ evals'[1].k = "call" /\ updateDepth = 0)
       => LET c == evals'[1].c
              v == evals'[1].v
          IN  \A u \in Ids :
                 LET a == prog[u].a
                     b == prog[u].b
                 IN  (/\ kind[u] = "fn" /\ prog[u].k = "peek"
                      /\ kind[a] = "of" /\ kind[b] = "of")
                     => /\ dependencies[u] = {a} /\ dependencies'[u] = {a}
                        /\ u \notin dependents[b] /\ u \notin dependents'[b]
                        /\ c = b => (Runs(evals', u) = 0 /\ value'[u] = value[u])
                        /\ (c = a /\ ~Eq(eq[a], value[a], v))
                           => (Runs(evals', u) = 1 /\ value'[u] = value'[b])]_vars

\* The last call wrote to the peeked b a value that u, which reads a and
\* peeks b, does not hold.
C16_Witness ==
    \E v \in ApiVals, u \in Ids, a \in Ids, b \in Ids :
        /\ Called(evals, b, v)
        /\ updateDepth = 0
        /\ IsFn(u, "peek", a, b)
        /\ kind[a] = "of" /\ kind[b] = "of"
        /\ value[b] = v
        /\ value[u] # v


\* ------------------------------------------------------------ Od: patching
\* The call of Od.bind the step made, if it made one.
Bound(o) == o.calls # <<>> /\ o.calls[Len(o.calls)].op = "bind"
LastCall(o) == o.calls[Len(o.calls)]

\* Node n of the document o realises the vDOM v: a text node with v's text,
\* or an element with v's tag whose children realise v's children, one for
\* one and in order, or the node of the component v refers to.
RECURSIVE Realises(_, _, _)
Realises(o, n, v) ==
    /\ n # 0
    /\ CASE v.t = "text" -> o.nodes[n].kind = "text" /\ o.nodes[n].text = v.text
          [] v.t = "elt" ->
                 LET q == o.nodes[n].children
                 IN  /\ o.nodes[n].kind = "elt"
                     /\ o.nodes[n].tag = v.tag
                     /\ Len(q) = Len(v.children)
                     /\ \A i \in 1..Len(q) :
                            /\ o.nodes[q[i]].parent = n
                            /\ Realises(o, q[i], v.children[i])
          [] v.t = "cmpt" -> n = o.cmpts[v.c].dom

\* The node returned stands where the node patched stood.
InPlace(o, e) ==
    e.parent # 0 =>
        /\ o.nodes[e.newDom].parent = e.parent
        /\ \E i \in 1..Len(o.nodes[e.parent].children) :
               o.nodes[e.parent].children[i] = e.newDom
        /\ e.dom # e.newDom => o.nodes[e.dom].parent # e.parent

RECURSIVE DistinctCmpts(_)
DistinctCmpts(v) ==
    \A i \in 1..Len(v.children) :
        /\ DistinctCmpts(v.children[i])
        /\ \A j \in 1..Len(v.children) :
               (i # j /\ v.children[i].t = "cmpt") => v.children[i] # v.children[j]

C18_NodeReuse ==
    [][Bound(od') =>
         LET e == LastCall(od')
             free == e.dom # 0 /\ od.nodes[e.dom].cid = 0
         IN  /\ e.v.t = "elt" =>
                   IF free /\ od.nodes[e.dom].kind = "elt"
                           /\ od.nodes[e.dom].tag = e.v.tag
                   THEN e.newDom = e.dom
                   ELSE e.newDom = e.fresh /\ od'.nodes[e.newDom].tag = e.v.tag
             /\ e.v.t = "text" =>
                   /\ od'.nodes[e.newDom].text = e.v.text
                   /\ IF free /\ od.nodes[e.dom].kind = "text"
                      THEN e.newDom = e.dom
                      ELSE e.newDom = e.fresh /\ od'.nodes[e.newDom].kind = "text"]_vars

\* An element was bound to the node of a component, an element of the same
\* tag, and the call returned a node it created.
C18_Witness ==
    /\ Bound(od)
    /\ LET e == LastCall(od)
       IN  /\ e.v.t = "elt"
           /\ e.dom # 0
           /\ od.nodes[e.dom].cid # 0
           /\ od.nodes[e.dom].tag = e.v.tag
           /\ e.newDom = e.fresh

\* The step bound a keyed element with children, all elements with distinct
\* keys, to an element of its tag that no component owns and whose children
\* all carry distinct keys.
KeyedRebind(o, e) ==
    LET q == o.nodes[e.dom].children
    IN  /\ e.v.t = "elt" /\ e.v.keyed
        /\ e.dom # 0
        /\ o.nodes[e.dom].cid = 0
        /\ o.nodes[e.dom].tag = e.v.tag
        /\ \A i \in 1..Len(q) : o.nodes[q[i]].key # ""
        /\ \A i \in 1..Len(q), j \in 1..Len(q) :
               i # j => o.nodes[q[i]].key # o.nodes[q[j]].key
        /\ \A i \in 1..Len(e.v.children) :
               e.v.children[i].t = "elt" /\ e.v.children[i].key # ""
        /\ \A i \in 1..Len(e.v.children), j \in 1..Len(e.v.children) :
               i # j => e.v.children[i].key # e.v.children[j].key

\* C19 as stated: after such a bind, a new child whose key one of the live
\* children carried, with the same tag, is that very node, at the position
\* the new list gives it.
C19_KeyedIdentity ==
    [][(Bound(od') /\ KeyedRebind(od, LastCall(od')))
       => LET e == LastCall(od')
              q == od.nodes[e.dom].children
          IN  \A i \in 1..Len(e.v.children), j \in 1..Len(q) :
                  (/\ od.nodes[q[j]].key = e.v.children[i].key
                   /\ od.nodes[q[j]].tag = e.v.children[i].tag)
                  => od'.nodes[e.newDom].children[i] = q[j]]_vars

\* C19, amended: after such a bind, a new child whose key one of the live
\* children carried, with the same tag and owned by no component, is that
\* very node, at the position the new list gives it, and no node is created
\* for it.
C19_KeyedIdentityFree ==
    [][(Bound(od') /\ KeyedRebind(od, LastCall(od')))
       => LET e == LastCall(od')
              q == od.nodes[e.dom].children
          IN  \A i \in 1..Len(e.v.children), j \in 1..Len(q) :
                  (/\ od.nodes[q[j]].key = e.v.children[i].key
                   /\ od.nodes[q[j]].tag = e.v.children[i].tag
                   /\ od.nodes[q[j]].cid = 0)
                  => /\ od'.nodes[e.newDom].children[i] = q[j]
                     /\ od'.nodes[q[j]].parent = e.newDom]_vars

\* Two keyed children changed places: the children of the element bound are
\* the two nodes there were, in the other order, and the call created none.
C19_Witness ==
    /\ Bound(od)
    /\ LET e == LastCall(od)
       IN  /\ e.v.t = "elt" /\ e.v.keyed /\ e.dom = e.newDom
           /\ Len(e.v.children) = 2
           /\ e.v.children[1].t = "elt" /\ e.v.children[2].t = "elt"
           /\ e.v.children[1].key = "y" /\ e.v.children[2].key = "x"
           /\ od.nextNode = e.fresh
           /\ Len(od.nodes[e.newDom].children) = 2
           /\ od.nodes[e.newDom].children[1] > od.nodes[e.newDom].children[2]
           /\ od.nodes[od.nodes[e.newDom].children[1]].key = "y"
           /\ od.nodes[od.nodes[e.newDom].children[2]].key = "x"

\* The parent components there are whose body the step ran again: the
\* history of the step has an evaluation of their observable.
Reevaluated(p) ==
    /\ od.cmpts[p].body.k = "parent"
    /\ od.cmpts[p].obs # 0
    /\ \E i \in 1..Len(evals') :
           evals'[i].k = "eval" /\ evals'[i].c = od.cmpts[p].obs

\* Od.component("foo", ...) in the body of p returned the component foo that
\* the evaluation before had: no other is made and foo keeps its observable,
\* its subscription and its node, none of them disposed.
NamedKept(p, foo) ==
    /\ foo # 0
    /\ \E i \in 1..Len(od'.calls) :
           od'.calls[i] = OdEv("component", "foo", p, foo, FALSE)
    /\ \A i \in 1..Len(od'.calls) :
           (od'.calls[i].op = "component" /\ od'.calls[i].parent = p
            /\ od'.calls[i].name = "foo") => od'.calls[i].c = foo
    /\ od'.cmpts[p].namedSubcomponents["foo"] = foo
    /\ od'.cmpts[foo].obs = od.cmpts[foo].obs
    /\ od'.cmpts[foo].subs = od.cmpts[foo].subs
    /\ od'.cmpts[foo].dom = od.cmpts[foo].dom
    /\ od'.nodes[od.cmpts[foo].dom].cid = foo
    /\ {od.cmpts[foo].obs, od.cmpts[foo].subs} \cap disposed' = {}

\* Every anonymous child p had is disposed before the body of p calls
\* Od.component, and the anonymous child p has afterwards is a new component.
AnonymousReplaced(p) ==
    /\ \A k \in 1..Len(od.cmpts[p].anonymousSubcomponents) :
           LET a == od.cmpts[p].anonymousSubcomponents[k]
           IN  /\ \E i \in 1..Len(od'.calls) :
                      /\ od'.calls[i] = OdEv("dispose", "", 0, a, FALSE)
                      /\ \A j \in 1..Len(od'.calls) :
                             (od'.calls[j].op = "component"
                              /\ od'.calls[j].parent = p) => i < j
               /\ {od.cmpts[a].obs, od.cmpts[a].subs} \subseteq disposed'
               /\ od'.nodes[od.cmpts[a].dom].cid = 0
    /\ \E c \in (Len(od.cmpts) + 1)..Len(od'.cmpts) :
           /\ od'.cmpts[p].anonymousSubcomponents = <<c>>
           /\ \E i \in 1..Len(od'.calls) :
                  od'.calls[i] = OdEv("component", "", p, c, TRUE)
           /\ od'.cmpts[c].obs \notin disposed'

\* C20: when the body of a parent component runs again, Od.component("foo",
\* ...) returns the component it returned in the evaluation before (the same
\* observable, the same live node), every anonymous child of the evaluation
\* before is disposed before the body runs, and a new component is created
\* in its place.
C20_NamedPersistence ==
    [][\A p \in 1..Len(od.cmpts) :
           Reevaluated(p) =>
               /\ NamedKept(p, od.cmpts[p].namedSubcomponents["foo"])
               /\ AnonymousReplaced(p)]_vars

\* The body of a parent has run again: Od.component("foo", ...) gave the
\* component there was, the anonymous child was disposed and another made.
C20_Witness ==
    \E p \in 1..Len(od.cmpts) :
        /\ od.cmpts[p].body.k = "parent"
        /\ \E i, j, k \in 1..Len(od.calls) :
               /\ i < j /\ j < k
               /\ od.calls[i].op = "dispose"
               /\ od.calls[j] = OdEv("component", "foo", p,
                                     od.cmpts[p].namedSubcomponents["foo"], FALSE)
               /\ od.calls[k].op = "component" /\ od.calls[k].parent = p
               /\ od.calls[k].name = "" /\ od.calls[k].created
               /\ od.calls[i].c < od.calls[k].c


\* ----------------------------------------------------- C22: deduplication
\* No component is twice in q.
NoDuplicates(q) == \A i, j \in 1..Len(q) : q[i] = q[j] => i = j

\* The times the call patched component c.
Updates(calls, c) ==
    Cardinality({i \in 1..Len(calls) : calls[i].op = "update" /\ calls[i].c = c})

\* The step is a run of updateDeferredComponents.
Flushed == od'.calls # <<>> /\ od'.calls[1].op = "raf"

\* At most one animation frame is requested, and no component is pending twice.
Dedup ==
    /\ od.rafCallbacks <= 1
    /\ NoDuplicates(od.componentInfosPendingUpdate)

\* A pending component has been disposed of.
PendingDisposed ==
    \E i \in 1..Len(od.componentInfosPendingUpdate) :
        od.cmpts[od.componentInfosPendingUpdate[i]].obs \in disposed

\* The flush patched every component that was pending once.
FlushOnce ==
    \A i \in 1..Len(od.componentInfosPendingUpdate) :
        Updates(od'.calls, od.componentInfosPendingUpdate[i]) = 1

DisposedAt(i) == od.cmpts[od.componentInfosPendingUpdate[i]].obs \in disposed

\* C23 (a disposed pending component is a no-op): a run of
\* updateDeferredComponents with a disposed component pending patches the
\* other pending components once each and the disposed ones not at all, and
\* leaves deferredComponentUpdatesID 0 and nothing pending.
C23_DisposedPendingNoOp ==
    [][Flushed /\ PendingDisposed =>
        /\ \A i \in 1..Len(od.componentInfosPendingUpdate) :
              Updates(od'.calls, od.componentInfosPendingUpdate[i]) =
                  IF DisposedAt(i) THEN 0 ELSE 1
        /\ od'.deferredComponentUpdatesID = 0
        /\ od'.componentInfosPendingUpdate = <<>>]_vars

\* ------------------------------------------------------ C24: immediate mode
\* The step is a write of x by the script.
Wrote == od'.calls # <<>> /\ od'.calls[1].op = "write"

\* The step ran the function of component c again, and it returned; c is
\* not disposed of.
Rerun(c) ==
    /\ od.cmpts[c].obs # 0
    /\ od.cmpts[c].obs \notin disposed'
    /\ \E i \in 1..Len(evals') :
           evals'[i].k = "eval" /\ evals'[i].c = od.cmpts[c].obs /\ ~evals'[i].threw

\* C24 (immediate mode): with deferComponentUpdates false, when a write of x
\* has run the function of a component again, the component's node realises
\* the vDOM the function returned when the write returns, and it is the node
\* the component had if that vDOM is an element of the node's tag.
C24_Immediate ==
    [][\A c \in Cmpts :
          (Wrote /\ ~od.deferComponentUpdates /\ Rerun(c))
          => /\ Realises(od', od'.cmpts[c].dom, od'.cmpts[c].vdom)
             /\ (/\ od'.cmpts[c].vdom.t = "elt"
                 /\ od'.cmpts[c].vdom.tag = od.nodes[od.cmpts[c].dom].tag)
                => od'.cmpts[c].dom = od.cmpts[c].dom]_vars

\* A write with deferComponentUpdates false has patched the node of a
\* component, which now has the text "a" of the new value and is the node the
\* component had.
C24_Witness ==
    /\ ~od.deferComponentUpdates
    /\ od.calls # <<>>
    /\ od.calls[1].op = "write"
    /\ \E c \in Cmpts :
           /\ \E i \in 1..Len(od.calls) : od.calls[i] = OdEv("update", "", 0, c, FALSE)
           /\ od.cmpts[c].vdom = VElt("DIV", "", FALSE, <<VText("a")>>)
           /\ Realises(od, od.cmpts[c].dom, od.cmpts[c].vdom)

\* ------------------------------------------------- C27: recursive disposal
\* The components the function of c made: the named and the anonymous ones.
Subcomponents(o, c) ==
    {o.cmpts[c].anonymousSubcomponents[i] :
         i \in 1..Len(o.cmpts[c].anonymousSubcomponents)}
    \cup ({o.cmpts[c].namedSubcomponents[n] : n \in Names} \ {0})

\* c and the components below it.
RECURSIVE Family(_, _)
Family(o, c) == {c} \cup UNION {Family(o, d) : d \in Subcomponents(o, c)}

\* The step is Od.dispose(c) by the script.
DisposedBy(c) == od'.calls # <<>> /\ od'.calls[1] = OdEv("Od.dispose", "", 0, c, FALSE)

\* The step neither ran the function of d, nor the action of its
\* subscription, nor patched its node.
Untouched(d) ==
    /\ \A i \in 1..Len(evals') :
           evals'[i].k \in {"eval", "action"}
           => evals'[i].c \notin {od.cmpts[d].obs, od.cmpts[d].subs}
    /\ Updates(od'.calls, d) = 0
    /\ od'.cmpts[d].dom = od.cmpts[d].dom
    /\ od'.cmpts[d].vdom = od.cmpts[d].vdom

\* C27 (recursive disposal): Od.dispose(c) leaves the observable and the
\* subscription of c and of every component below c disposed; and no step
\* runs the function or the subscription of a disposed component again, or
\* patches its node.
C27_RecursiveDisposal ==
    [][/\ \A c \in Cmpts :
             DisposedBy(c)
             => \A d \in Family(od, c) :
                    {od.cmpts[d].obs, od.cmpts[d].subs} \subseteq disposed'
       /\ \A d \in Cmpts :
             {od.cmpts[d].obs, od.cmpts[d].subs} \subseteq disposed
             => Untouched(d)]_vars

\* ------------------------------------- C28: disposal and the stripping queue
\* Node n waits for stripNodes.
PendingStripping(o, n) ==
    /\ o.stripNodesID # 0
    /\ \E i \in 1..Len(o.nodesPendingStripping) : o.nodesPendingStripping[i] = n

\* C28 (dispose schedules the node's cleanup): when Od.dispose(c) returns, the
\* node c owned is in nodesPendingStripping with the timer of stripNodes
\* pending (the call itself strips no node).
C28_DisposeSchedulesCleanup ==
    [][\A c \in Cmpts :
          DisposedBy(c) => PendingStripping(od', od.cmpts[c].dom)]_vars

\* ------------------------------------------------ C21: deferred liveness
\* C21 (deferred update liveness): whenever a component is in
\* componentInfosPendingUpdate and updateDeferredComponents is not running,
\* an animation frame that will run it is requested; so every component
\* whose observable changed is patched when the frames come.
C21_DeferredLiveness ==
    od.componentInfosPendingUpdate # <<>> => od.rafCallbacks > 0

\* ------------------------------------------------- C30: lifecycle events
\* The handlers of the elements of the model: those of the functions of
\* components, and the one of the element the script binds.
AllHooks == Hooks \cup {"bound"}

\* The nodes made for an element with a handler of H.
HookNodeSet(o, H) == {n \in 1..(o.nextNode - 1) : o.nodes[n].odProps \in H}

\* Node n is the node of a component, or the node the script bound last.
InUse(o, n) == o.bound = n \/ \E c \in 1..(o.nextComponentID - 1) : o.cmpts[c].dom = n

\* The patches of the step that reused node n: those of updateComponent and
\* that of Od.bind.
Reuses(o, n) ==
    Cardinality({i \in 1..Len(o.calls) :
                    \/ /\ o.calls[i].op = "update"
                       /\ ~o.calls[i].created
                       /\ o.cmpts[o.calls[i].c].dom = n
                    \/ /\ o.calls[i].op = "bind"
                       /\ o.calls[i].dom = n
                       /\ o.calls[i].newDom = n})

\* Each node made for the element has had its "created" call, once.
CreatedOnce(H) ==
    \A n \in HookNodeSet(od, H) : od.nodes[n].odevents.created = 1

\* A node that was discarded has had its "removed" call, once, or waits for
\* stripNodes; the nodes in use have had none.
RemovedOnce(H) ==
    \A n \in HookNodeSet(od, H) :
        od.nodes[n].odevents.removed =
            IF InUse(od, n) \/ PendingStripping(od, n) THEN 0 ELSE 1

\* Each patch that reused a node gave it one "updated" call.
UpdatedEach(H) ==
    \A n \in HookNodeSet(od, H) :
        od'.nodes[n].odevents.updated =
            od.nodes[n].odevents.updated + Reuses(od', n)

Waiting(o, n) ==
    \E i \in 1..Len(o.pendingCreatedEventCallbacks) : o.pendingCreatedEventCallbacks[i] = n

\* Each node made for the element has had its "created" call, once, or it
\* has had none and waits for it, or was stripped while it waited.
CreatedOnceOrWaiting(H) ==
    \A n \in HookNodeSet(od, H) :
        \/ od.nodes[n].odevents.created = 1
        \/ /\ od.nodes[n].odevents.created = 0
           /\ Waiting(od, n) \/ od.nodes[n].onodevent = ""

BoundPair == Bound(od') /\ Len(LastCall(od').v.children) = 2

\* The nodes the two components of the element bound owned before the step.
PairNodes(o, e) == <<o.cmpts[e.v.children[1].c].dom, o.cmpts[e.v.children[2].c].dom>>

\* The nodes of q in order, a node that occurs twice standing once.
Once(q) == IF q[1] = q[2] THEN <<q[1]>> ELSE q

\* But for its parent, node n is in o2 as it was in o1.
SameNode(o1, o2, n) == o2.nodes[n] = [o1.nodes[n] EXCEPT !.parent = o2.nodes[n].parent]

Stripped(o) == {o.calls[i].dom : i \in {j \in 1..Len(o.calls) : o.calls[j].op = "strip"}}

\* The node component c owns, when c is not disposed.
Owned(o, d, c) == IF o.cmpts[c].obs \in d THEN 0 ELSE o.cmpts[c].dom

\* C26: no owned node is stripped: in no step does stripNode clear the
\* properties of the node that a component that is not disposed owns, a
\* component whose function returns another component included.
C26_OwnedNeverStripped ==
    [][\A c \in Cmpts : Owned(od', disposed', c) \notin Stripped(od')]_vars

\* ------------------------------------------------ Od: nodes made outside Od
\* What a patch may change in a node: its properties and its children.
Inside(o, n) ==
    [key |-> o.nodes[n].key, keyed |-> o.nodes[n].keyed,
     onodevent |-> o.nodes[n].onodevent, odProps |-> o.nodes[n].odProps,
     children |-> o.nodes[n].children]

\* C29: a node wrapped with Od.fromDom or Od.fromHtml is grafted as a whole:
\* no step changes the properties or the children of the wrapped node, also
\* when it is the root of a component that re-evaluates to an element of the
\* same tag.
C29_OpaqueSubtrees ==
    [][\A n \in Nodes : od.nodes[n].opaque => Inside(od', n) = Inside(od, n)]_vars

\* ------------------------------------------- Obs: dependencies after a run
\* The entries of the history e where the function of c ran.
EvalsOf(e, c) == {i \in 1..Len(e) : e[i].k = "eval" /\ e[i].c = c}

\* The observables the function of c read when it last ran in the call.
LastReads(e, c) == e[MaxOf(EvalsOf(e, c))].reads

\* The level establishDependencies gives for the dependencies R.
LevelAbove(lv, R) == IF R = {} THEN 0 ELSE 1 + MaxOf({lv[d] : d \in R})

\* None of R was evaluated in the call after c last was.
Settled(e, c, R) == \A d \in R : \A j \in EvalsOf(e, d) : j < MaxOf(EvalsOf(e, c))

\* C31: dependencies are rebuilt on every evaluation: when a call returns,
\* every computed observable c it evaluated has as dependencies exactly the
\* observables its function read when it last ran, c is a dependent of these
\* and of no other observable (so one read only in an earlier evaluation no
\* longer has c in its dependents), and the level of c is one above the
\* highest level among them (0 when it read none); the level is compared when
\* none of them was evaluated after c.
C31_DependenciesRebuilt ==
    [][\A c \in Ids :
          EvalsOf(evals', c) # {} =>
              /\ dependencies'[c] = LastReads(evals', c)
              /\ \A d \in Ids : c \in dependents'[d] <=> d \in LastReads(evals', c)
              /\ Settled(evals', c, LastReads(evals', c))
                     => level'[c] = LevelAbove(level', LastReads(evals', c))]_vars

\* In one call u = cond(a, b) ran and read a and b (b computed, of level 1),
\* then, an action having written a, ran again and read a only: its
\* dependencies are {a}, b has lost it as a dependent and its level is 1.
C31_Witness ==
    \E c \in Ids :
        /\ prog[c].k = "cond"
        /\ \E i \in EvalsOf(evals, c) :
               /\ i < MaxOf(EvalsOf(evals, c))
               /\ evals[i].reads = {prog[c].a, prog[c].b}
        /\ LastReads(evals, c) = {prog[c].a}
        /\ dependencies[c] = {prog[c].a}
        /\ c \notin dependents[prog[c].b]
        /\ level[prog[c].b] = 1
        /\ level[c] = 1

\* ------------------------------------------------ Obs: the order of the queue
\* The step was a call of dequeueUpdate; what it returned.
DequeueStep == evals' # <<>> /\ evals'[1].k = "dequeue"
Returned == evals'[1].c

\* The entries of the array q.
Entries(q) == {q[i] : i \in 1..Len(q)}

\* C32: heap order: with levels that do not change, dequeueUpdate returns
\* undefined exactly when the queue is empty and otherwise an entry of the
\* queue whose level is the least of the levels of the entries, which it
\* takes out of the queue and no other.
C32_HeapOrder ==
    [][DequeueStep =>
          /\ Returned = 0 <=> updateQ = <<>>
          /\ Returned # 0 =>
                 /\ Returned \in Entries(updateQ)
                 /\ \A c \in Entries(updateQ) : level[Returned] <= level[c]
                 /\ Entries(updateQ') = Entries(updateQ) \ {Returned}
                 /\ Len(updateQ') = Len(updateQ) - 1]_vars

\* dequeueUpdate returned an entry and four are left, all of a higher level,
\* the one of the highest level not at the end of the array.
C32_Witness ==
    /\ evals # <<>>
    /\ evals[1].k = "dequeue"
    /\ evals[1].c # 0
    /\ Len(updateQ) = 4
    /\ \A c \in Entries(updateQ) : level[evals[1].c] < level[c]
    /\ \E i \in 1..3 : level[updateQ[i]] > level[updateQ[4]]

\* ------------------------------------------ Obs: one entry per observable
\* C33: queue deduplication: between calls no observable occurs twice in the
\* update queue, and isInUpdateQueue is true of exactly the observables in
\* the queue.
C33_QueueDedup ==
    /\ \A i \in 1..Len(updateQ) : \A j \in 1..Len(updateQ) :
           updateQ[i] = updateQ[j] => i = j
    /\ \A c \in Ids : isInUpdateQueue[c] <=> c \in Entries(updateQ)

\* Inside an update region two observables wait in the queue, one of them a
\* dependent of two mutable observables that were both changed in the region:
\* it was handed to enqueueUpdate twice and is in the queue once.
C33_Witness ==
    /\ updateDepth > 0
    /\ Len(updateQ) = 2
    /\ \E i \in 1..2 : Cardinality(dependencies[updateQ[i]] \cap written) = 2
    /\ \A c \in Ids : isInUpdateQueue[c] <=> c \in Entries(updateQ)

\* ------------------------------------------------ Obs: the flush ends empty
\* C34: flush termination: every call that returns at depth 0 (a write
\* outside an update region, the endUpdate that closes the outermost region)
\* returns, and then the update queue is empty and isInUpdateQueue is set for
\* no observable.  (The loop of processUpdateQueue is evaluated to its end in
\* every step; the dependency graphs of the model are acyclic.)
C34_FlushTerminates ==
    updateDepth = 0 => /\ updateQ = <<>>
                       /\ \A c \in Ids : ~isInUpdateQueue[c]

\* The call returned at depth 0 after the flush ran two computed observables
\* of different levels and the action of a subscription, none of which
\* wrote: the queue is empty.
C34_Witness ==
    /\ updateDepth = 0
    /\ phase = "run"
    /\ ~ActionWrote(evals)
    /\ \E i \in 1..Len(evals) : evals[i].k = "action"
    /\ \E i \in 1..Len(evals) : \E j \in 1..Len(evals) :
           /\ evals[i].k = "eval" /\ evals[j].k = "eval"
           /\ level[evals[i].c] < level[evals[j].c]
    /\ updateQ = <<>>
    /\ \A c \in Ids : ~isInUpdateQueue[c]

\* --------------------------------------- Obs: tracking suspended in actions
\* The observables the function of u read in its evaluations of the call.
OwnReads(e, u) == UNION {e[i].reads : i \in EvalsOf(e, u)}

\* C35: actions run with dependency tracking suspended and the context is
\* restored: a call adds to the dependencies of a computed observable u only
\* what the function of u itself read (what an action read is added to no
\* dependency set, also when the action ran during the evaluation of u);
\* what the function of u read in its last evaluation is among the
\* dependencies of u, reads made after an action returned included; and
\* when the call returns currentDependencies is null, also when a function
\* threw.
C35_TrackingSuspended ==
    [][/\ currentDependencies' = 0
       /\ \A u \in TrackIds :
              /\ dependencies'[u] \subseteq dependencies[u] \cup OwnReads(evals', u)
              /\ EvalsOf(evals', u) # {}
                     => LastReads(evals', u) \subseteq dependencies'[u]]_vars

\* u = set(a, b) was evaluated; its write of a ran the action of the
\* subscription w to a, which read c; then the function read b: the
\* dependencies of u are {b}, and c, which is not b, is not among them.
C35_Witness ==
    \E u \in TrackIds, w \in TrackIds :
        /\ Len(evals) = 2
        /\ evals[1].k = "action" /\ evals[1].c = w
        /\ evals[2].k = "eval" /\ evals[2].c = u
        /\ prog[u].k = "set"
        /\ subscriptions[w] = {prog[u].a}
        /\ prog[w].k = "read"
        /\ evals[1].reads = {prog[w].a}
        /\ prog[w].a # prog[u].b
        /\ dependencies[u] = {prog[u].b}
        /\ currentDependencies = 0

\* ------------------------------------------- Od: the lists of pending calls
\* C36: the lifecycle queue is drained: whenever the outermost
\* runPendingOdEventCallbacks returns, pendingCreatedEventCallbacks and
\* pendingUpdatedEventCallbacks are both empty, also when a handler called
\* during the run started a component update that queued further calls.
C36_LifecycleQueueDrained ==
    [][\A i \in 1..Len(od'.calls) :
          od'.calls[i].op = "delivered"
              => od'.calls[i].created = <<>> /\ od'.calls[i].updated = <<>>]_vars

\* ------------------------------------ Od: components whose function may throw
\* The script makes an observable x, says whether updates are deferred, and
\* at the top level creates components whose function throws when x is
\* truthy (inside try ... catch) and components that read nothing, with a
\* name or without, and writes x.
ScopeCmpts == 4

\* try { Od.component(name, () => { if (x()) throw "fail";
\*                                  return Od.element("DIV"); }); } catch (e) { }
FailScope ==
    \E name \in Names \cup {""} :
        /\ nextID > 1
        /\ od.nextComponentID <= ScopeCmpts
        /\ Commit(OdComponent(OdBegin, name, FailBody(1)).s)
        /\ written' = WrittenBase
        /\ phase' = "run"

\* Od.component(name, () => Od.element("DIV", {key: "x"}))
LeafScope ==
    \E name \in Names \cup {""} :
        /\ nextID > 1
        /\ od.nextComponentID <= ScopeCmpts
        /\ Commit(OdComponent(OdBegin, name, LeafBody(0, "x")).s)
        /\ written' = WrittenBase
        /\ phase' = "run"

\* x(v)
WriteScope ==
    \E v \in Vals :
        /\ nextID > 1
        /\ Commit(writeObs(LogOd(OdBegin, OdEv("write", "", 0, 0, FALSE)), 1, v))
        /\ written' = WrittenBase
        /\ phase' = "run"

NextScope == OfOd \/ SetEager \/ FailScope \/ LeafScope \/ WriteScope \/ Raf

SpecScope == InitCmpt /\ [][NextScope]_vars

\* C37: between the calls of the script parentComponentInfo is null, also
\* after a component's function threw, so that no component the script
\* creates at the top level is registered with another component, as an
\* anonymous or a named subcomponent, and no call of Od.component at the top
\* level was made in the scope of a component.
TopLevelCalls ==
    \A i \in 1..Len(od.calls) :
        od.calls[i].op \in {"component", "failed"} => od.calls[i].parent = 0

NoSubcomponents ==
    \A c \in Cmpts :
        /\ od.cmpts[c].anonymousSubcomponents = <<>>
        /\ \A n \in Names : od.cmpts[c].namedSubcomponents[n] = 0

C37_ScopeRestored ==
    od.parentComponentInfo = 0 /\ NoSubcomponents /\ TopLevelCalls

\* ------------------------------------ Obs: dependencies after a function threw
\* The function of c threw when it last ran in the call.
LastThrew(e, c) == EvalsOf(e, c) # {} /\ e[MaxOf(EvalsOf(e, c))].threw

\* The step is one call outside any update region in which no action wrote
\* and nothing was disposed of.
PlainCall ==
    /\ phase' = "run"
    /\ updateDepth = 0
    /\ updateDepth' = 0
    /\ disposed' = disposed
    /\ ~ActionWrote(evals')

\* C38: when the function of computed observable c threw, c has as
\* dependencies exactly the observables the function read before it threw
\* and is a dependent of exactly these; they stay so until c is evaluated
\* again; and a later call evaluates c exactly when one of them changed, so
\* that a change of an observable c read only when it last returned does not
\* evaluate it (c and its dependencies not disposed of).
C38_FailedRecoverable ==
    [][\A c \in Ids :
          /\ LastThrew(evals', c)
                 => /\ c \in failed'
                    /\ dependencies'[c] = LastReads(evals', c)
                    /\ \A d \in Ids : c \in dependents'[d] <=> d \in LastReads(evals', c)
          /\ (c \in failed /\ Live(c) /\ dependencies[c] \cap disposed = {} /\ PlainCall)
                 => /\ EvalsOf(evals', c) # {}
                           <=> \E d \in dependencies[c] : value'[d] # value[d]
                    /\ EvalsOf(evals', c) = {}
                           => dependencies'[c] = dependencies[c]]_vars

\* u = guard(a, b) holds the value it returned when a was not 1, having read
\* a and b; a(1) then made it throw after it read a: its only dependency is
\* a, which has it as a dependent, b has it no longer, and the last call did
\* not evaluate it.
C38_Witness ==
    \E c \in Ids :
        /\ IsFn(c, "guard", prog[c].a, prog[c].b)
        /\ prog[c].a # prog[c].b
        /\ kind[prog[c].a] = "of" /\ kind[prog[c].b] = "of"
        /\ Live(c) /\ Live(prog[c].a) /\ Live(prog[c].b)
        /\ c \in failed
        /\ value[c] \in Vals
        /\ dependencies[c] = {prog[c].a}
        /\ c \in dependents[prog[c].a]
        /\ c \notin dependents[prog[c].b]
        /\ phase = "run"
        /\ updateDepth = 0
        /\ EvalsOf(evals, c) = {}

\* ---------------------------- Od.js of src/Od/Od: the nodes pending stripping
\* The older Od keeps the list and the timer handle as the Od above does.
\* The script makes a parent node and has patches replace, remove and insert
\* children of it through replaceNode; the timer of stripNodes comes when one
\* is pending.  timeouts counts the setTimeout callbacks the browser has yet
\* to run, stripped holds the nodes stripNode cleared.
OdJsNodes == 5

InitOdJs ==
    /\ InitCells(OdIds)
    /\ od = OdInit(TRUE) @@ [timeouts |-> 0, stripped |-> {}]

\* domBelongsToComponent: !!dom.__Od__component
domBelongsToComponent(s, dom) == s.od.nodes[dom].cid # 0

\* stripNodesID = setTimeout(stripNodes, 100) unless stripNodesID is set
OdJs_SetTimeout(s) ==
    IF s.od.stripNodesID # 0
    THEN s
    ELSE [s EXCEPT !.od.stripNodesID = 1, !.od.timeouts = @ + 1]

\* enqueueNodeForStripping of Od.js
OdJs_enqueueNodeForStripping(s, dom) ==
    IF dom = 0
    THEN s
    ELSE IF domBelongsToComponent(s, dom)
    THEN s
    ELSE OdJs_SetTimeout([s EXCEPT !.od.nodesPendingStripping = Append(@, dom)])

\* stripNode of Od.js
RECURSIVE OdJs_stripNode(_, _)
RECURSIVE OdJs_StripChildren(_, _)
OdJs_stripNode(s, dom) ==
    IF domBelongsToComponent(s, dom)
    THEN s
    ELSE OdJs_StripChildren(
             StripProps([s EXCEPT !.od.stripped = @ \cup {dom}], dom),
             s.od.nodes[dom].children)

OdJs_StripChildren(s, q) ==
    IF q = <<>> THEN s ELSE OdJs_StripChildren(OdJs_stripNode(s, Head(q)), Tail(q))

\* stripNodes of Od.js: the list is popped until it is empty; stripNodesID
\* keeps the handle of the timer that has come.
RECURSIVE OdJs_stripNodes(_)
OdJs_stripNodes(s) ==
    LET nodes == s.od.nodesPendingStripping
    IN  IF nodes = <<>>
        THEN s
        ELSE OdJs_stripNodes(
                 OdJs_stripNode([s EXCEPT !.od.nodesPendingStripping =
                                              SubSeq(nodes, 1, Len(nodes) - 1)],
                                nodes[Len(nodes)]))

\* replaceNode of Od.js (0 is null)
replaceNode(s, newDom, oldDom, domParent) ==
    IF newDom = 0
    THEN IF oldDom = 0
         THEN s
         ELSE IF domParent # 0
         THEN removeChild(OdJs_enqueueNodeForStripping(s, oldDom), domParent, oldDom)
         ELSE OdJs_enqueueNodeForStripping(s, oldDom)
    ELSE IF oldDom = 0
    THEN IF domParent # 0 THEN appendChild(s, domParent, newDom) ELSE s
    ELSE IF newDom = oldDom
    THEN s
    ELSE IF domParent = 0
    THEN OdJs_enqueueNodeForStripping(s, oldDom)
    ELSE replaceChild(OdJs_enqueueNodeForStripping(s, oldDom), domParent, newDom, oldDom)

\* var parent = document.createElement("DIV")
MountOdJs ==
    /\ od.nextNode = 1
    /\ Commit(createElement(State, "DIV").s)
    /\ written' = WrittenBase
    /\ phase' = "run"

\* The node a patch made: an element, the node of a component when owned.
OdJs_NewDom(s, owned) ==
    [createElement(s, "DIV") EXCEPT
        !.s.od.nodes[s.od.nextNode].cid = IF owned THEN 1 ELSE 0]

\* The children of the parent node.
OdJs_Children ==
    IF od.nextNode = 1
    THEN {}
    ELSE {od.nodes[1].children[i] : i \in 1..Len(od.nodes[1].children)}

\* A patch puts a new node for the child oldDom of the parent, or as a new
\* child (oldDom is null)
ReplaceOdJs ==
    \E oldDom \in OdJs_Children \cup {0}, owned \in BOOLEAN :
        /\ od.nextNode > 1
        /\ od.nextNode <= OdJsNodes
        /\ Commit(replaceNode(OdJs_NewDom(State, owned).s, od.nextNode, oldDom, 1))
        /\ written' = WrittenBase
        /\ phase' = "run"

\* A patch removes the child oldDom of the parent.
RemoveOdJs ==
    \E oldDom \in OdJs_Children :
        /\ Commit(replaceNode(State, 0, oldDom, 1))
        /\ written' = WrittenBase
        /\ phase' = "run"

\* The timer set by enqueueNodeForStripping comes.
TimerOdJs ==
    /\ od.timeouts > 0
    /\ Commit(OdJs_stripNodes([State EXCEPT !.od.timeouts = @ - 1]))
    /\ written' = WrittenBase
    /\ phase' = "run"

NextOdJs == MountOdJs \/ ReplaceOdJs \/ RemoveOdJs \/ TimerOdJs

SpecOdJs == InitOdJs /\ [][NextOdJs]_vars

\* A timer that is pending comes: the browser runs the callback of
\* setTimeout(stripNodes, 100) once 100 ms have passed.
SpecOdJsLive == SpecOdJs /\ WF_vars(TimerOdJs)

\* Node n is in nodesPendingStripping.
OdJs_Pending(n) ==
    \E i \in 1..Len(od.nodesPendingStripping) : od.nodesPendingStripping[i] = n

\* C39: whenever nodesPendingStripping is not empty a timer of stripNodes is
\* pending, and every node pushed onto nodesPendingStripping is eventually
\* stripped, the nodes discarded after stripNodes has run once included.
C39_StrippingLiveness ==
    /\ [](od.nodesPendingStripping # <<>> => od.timeouts > 0)
    /\ \A n \in 1..OdJsNodes : OdJs_Pending(n) ~> n \in od.stripped

====
